---- MODULE Spec2Model ----
(***************************************************************************)
(* Model of the x402-payments credit ledger (CreditStore), its encrypted   *)
(* persistence, the POST /v1/deposit handler and the way signal-bot wires  *)
(* the ledger into the deployment.                                         *)
(***************************************************************************)
EXTENDS Integers, Sequences, FiniteSets, TLC

\* ------------------------------------------------------------------------
\* Bounds
\* ------------------------------------------------------------------------
\* Stand-in for u64::MAX: the counters saturate here.
U64_MAX == 3
\* Number of calls issued one after another in the sequential runs.
MaxCalls == 3
\* Number of calls in flight at once in the concurrent runs.
MaxTasks == 2
\* Number of sweep cycles the sweeper runs.
MaxCycles == 2
\* Stand-in for u32::MAX, the width of the token counts.
U32_MAX == 2
\* Stand-in for the 1_000_000 the rates are quoted per, on the scale of
\* U64_MAX.
MILLION == 2
\* Height the Base chain grows to; the receipts are in block 1.
MaxBlock == 2

\* ------------------------------------------------------------------------
\* Program constants
\* ------------------------------------------------------------------------
NONCE_SIZE == 12
DATA_VERSION == 1
\* sweep_once keeps the last 100 records of the history.
SWEEP_HISTORY_MAX == 100
\* estimate_credits counts 4 characters per token.
CHARS_PER_TOKEN == 4

\* ------------------------------------------------------------------------
\* Input sets
\* ------------------------------------------------------------------------
Users == {"u1", "u2"}
Chains == {"Base", "Near"}
\* "0xab" and "0xAB" are two spellings of one 32-byte EVM hash.
TxHashes == {"0xab", "0xAB", "0xcd"}
Amounts == {0, 1, U64_MAX}
\* "k1": the key of the DeriveKey endpoint; "k2": the key hashed from AppInfo.
Keys == {"k1", "k2"}
Nonces == {1, 2}
Stores == {"server", "bot"}
AllTasks == 1..(IF MaxCalls > MaxTasks THEN MaxCalls ELSE MaxTasks)

\* ------------------------------------------------------------------------
\* types.rs
\* ------------------------------------------------------------------------
saturating_add(a, b) == IF a + b > U64_MAX THEN U64_MAX ELSE a + b

CreditBalance_new(user_id) ==
    [user_id |-> user_id, credits_remaining |-> 0, total_deposited |-> 0,
     total_consumed |-> 0, last_deposit_at |-> "None", last_usage_at |-> "None"]

CreditBalance_add_credits(b, amount) ==
    [b EXCEPT !.credits_remaining = saturating_add(b.credits_remaining, amount),
              !.total_deposited = saturating_add(b.total_deposited, amount),
              !.last_deposit_at = "Some"]

CreditBalance_deduct_credits(b, amount) ==
    IF b.credits_remaining >= amount
    THEN [b EXCEPT !.credits_remaining = b.credits_remaining - amount,
                   !.total_consumed = saturating_add(b.total_consumed, amount),
                   !.last_usage_at = "Some"]
    ELSE b

CreditBalance_has_credits(b, amount) == b.credits_remaining >= amount

Deposit_new_pending(user_id, chain, tx_hash, amount_usdc, credits_granted) ==
    [user_id |-> user_id, chain |-> chain, tx_hash |-> tx_hash,
     amount_usdc |-> amount_usdc, credits_granted |-> credits_granted,
     status |-> "Pending", confirmed_at |-> "None"]

Deposit_confirm(d) == [d EXCEPT !.status = "Confirmed", !.confirmed_at = "Some"]

UsageRecord_new(user_id, conversation_id, prompt_tokens, completion_tokens, credits_consumed) ==
    [user_id |-> user_id, conversation_id |-> conversation_id,
     prompt_tokens |-> prompt_tokens, completion_tokens |-> completion_tokens,
     total_tokens |-> prompt_tokens + completion_tokens,
     credits_consumed |-> credits_consumed]

\* ------------------------------------------------------------------------
\* credits/store.rs: the aggregate
\* ------------------------------------------------------------------------
EmptyMap == [u \in {} |-> 0]

CreditStoreData_default ==
    [version |-> DATA_VERSION, balances |-> EmptyMap, deposits |-> <<>>,
     usage_log |-> <<>>, processed_tx_hashes |-> {}]

\* data.balances.get(user_id).cloned().unwrap_or_else(CreditBalance::new)
get_balance(d, user_id) ==
    IF user_id \in DOMAIN d.balances THEN d.balances[user_id]
    ELSE CreditBalance_new(user_id)

has_credits(d, user_id, required) ==
    CreditBalance_has_credits(get_balance(d, user_id), required)

is_tx_processed(d, tx_hash) == tx_hash \in d.processed_tx_hashes

\* data.deposits.iter().filter(|d| d.user_id == user_id).cloned().collect()
ByUser(user_id, x) == x.user_id = user_id
get_deposits(d, user_id) == SelectSeq(d.deposits, LAMBDA x : ByUser(user_id, x))
get_usage(d, user_id) == SelectSeq(d.usage_log, LAMBDA x : ByUser(user_id, x))

\* ------------------------------------------------------------------------
\* Results returned to callers
\* ------------------------------------------------------------------------
NoBalance == CreditBalance_new("")
NoRes == [tag |-> "None", required |-> 0, available |-> 0, balance |-> NoBalance]
Ok(b) == [tag |-> "Ok", required |-> 0, available |-> 0, balance |-> b]
Err(tag) == [tag |-> tag, required |-> 0, available |-> 0, balance |-> NoBalance]
InsufficientCredits(required, available) ==
    [tag |-> "InsufficientCredits", required |-> required,
     available |-> available, balance |-> NoBalance]
\* What a read-only call returns.
Value(v) == [tag |-> "Value", required |-> 0, available |-> 0,
             balance |-> NoBalance, value |-> v]

\* add_credits_cs that credits without recording the transaction id.
add_credits_cs_unrecorded(d, deposit) ==
    IF deposit.tx_hash \in d.processed_tx_hashes
    THEN [data |-> d, res |-> Err("DuplicateTransaction")]
    ELSE LET b0 == get_balance(d, deposit.user_id)
             b1 == CreditBalance_add_credits(b0, deposit.credits_granted)
             d1 == [d EXCEPT !.deposits = Append(@, deposit),
                             !.balances = (deposit.user_id :> b1) @@ @]
         IN [data |-> d1, res |-> Ok(b1)]

\* add_credits_cs with the replay check keyed on (identity, transaction id)
\* instead of the transaction id alone.
add_credits_cs_per_user(d, deposit) ==
    IF \E i \in DOMAIN d.deposits :
          /\ d.deposits[i].tx_hash = deposit.tx_hash
          /\ d.deposits[i].user_id = deposit.user_id
    THEN [data |-> d, res |-> Err("DuplicateTransaction")]
    ELSE LET b0 == get_balance(d, deposit.user_id)
             b1 == CreditBalance_add_credits(b0, deposit.credits_granted)
             d1 == [d EXCEPT !.processed_tx_hashes = @ \cup {deposit.tx_hash},
                             !.deposits = Append(@, deposit),
                             !.balances = (deposit.user_id :> b1) @@ @]
         IN [data |-> d1, res |-> Ok(b1)]

\* The critical section of add_credits: everything done under data.write().
\* Yields the new aggregate and either the balance clone or the error.
add_credits_cs(d, deposit) ==
    IF deposit.tx_hash \in d.processed_tx_hashes
    THEN [data |-> d, res |-> Err("DuplicateTransaction")]
    ELSE LET b0 == get_balance(d, deposit.user_id)
             b1 == CreditBalance_add_credits(b0, deposit.credits_granted)
             d1 == [d EXCEPT !.processed_tx_hashes = @ \cup {deposit.tx_hash},
                             !.deposits = Append(@, deposit),
                             !.balances = (deposit.user_id :> b1) @@ @]
         IN [data |-> d1, res |-> Ok(b1)]

\* deduct_credits_cs with the sufficiency check made against
\* total_deposited instead of credits_remaining.
deduct_credits_cs_total(d, user_id, credits, usage) ==
    LET available == IF user_id \in DOMAIN d.balances
                     THEN d.balances[user_id].total_deposited ELSE 0
    IN IF available < credits
       THEN [data |-> d, res |-> InsufficientCredits(credits, available)]
       ELSE LET d1 == [d EXCEPT !.usage_log = Append(@, usage)]
            IN IF user_id \notin DOMAIN d.balances
               THEN [data |-> d1, res |-> Err("UserNotFound")]
               ELSE LET b1 == CreditBalance_deduct_credits(d.balances[user_id], credits)
                    IN [data |-> [d1 EXCEPT !.balances[user_id] = b1],
                        res |-> Ok(b1)]

\* The critical section of deduct_credits.
deduct_credits_cs(d, user_id, credits, usage) ==
    LET available == IF user_id \in DOMAIN d.balances
                     THEN d.balances[user_id].credits_remaining ELSE 0
    IN IF available < credits
       THEN [data |-> d, res |-> InsufficientCredits(credits, available)]
       ELSE LET d1 == [d EXCEPT !.usage_log = Append(@, usage)]
            IN IF user_id \notin DOMAIN d.balances
               THEN [data |-> d1, res |-> Err("UserNotFound")]
               ELSE LET b1 == CreditBalance_deduct_credits(d.balances[user_id], credits)
                    IN [data |-> [d1 EXCEPT !.balances[user_id] = b1],
                        res |-> Ok(b1)]

\* ------------------------------------------------------------------------
\* credits/store.rs: persistence format
\* ------------------------------------------------------------------------
RECURSIVE SetToSeq(_)
SetToSeq(S) ==
    IF S = {} THEN <<>>
    ELSE LET x == CHOOSE y \in S : TRUE IN <<x>> \o SetToSeq(S \ {x})

\* to_vec that leaves the usage log out of the serialized aggregate.
to_vec_no_usage(d) ==
    [version |-> d.version,
     balances |-> {<<u, d.balances[u]>> : u \in DOMAIN d.balances},
     deposits |-> d.deposits,
     usage_log |-> <<>>,
     processed_tx_hashes |-> SetToSeq(d.processed_tx_hashes)]

\* serde_json::to_vec(&*data): the map becomes a JSON object (a set of
\* key/value members), the hash set becomes a JSON array.
to_vec(d) ==
    [version |-> d.version,
     balances |-> {<<u, d.balances[u]>> : u \in DOMAIN d.balances},
     deposits |-> d.deposits,
     usage_log |-> d.usage_log,
     processed_tx_hashes |-> SetToSeq(d.processed_tx_hashes)]

\* serde_json::from_slice(&plaintext)
from_slice(pt) ==
    [version |-> pt.version,
     balances |-> [u \in {m[1] : m \in pt.balances} |->
                      (CHOOSE m \in pt.balances : m[1] = u)[2]],
     deposits |-> pt.deposits,
     usage_log |-> pt.usage_log,
     processed_tx_hashes |->
         {pt.processed_tx_hashes[i] : i \in DOMAIN pt.processed_tx_hashes}]

\* Length in bytes of a blob persist writes: nonce, ciphertext of a
\* plaintext of at least two bytes, 16-byte tag.
EncryptedLen == NONCE_SIZE + 2 + 16

NoFile == [exists |-> FALSE, nonce |-> 0, key |-> "none",
           pt |-> to_vec(CreditStoreData_default), len |-> 0, flipped |-> FALSE]

\* nonce_bytes ++ cipher.encrypt(nonce, plaintext)
encrypt(k, nonce, pt) ==
    [exists |-> TRUE, nonce |-> nonce, key |-> k, pt |-> pt,
     len |-> EncryptedLen, flipped |-> FALSE]

\* cipher.decrypt(nonce, ciphertext) authenticates: it succeeds only on an
\* untouched blob written under the same key.
decrypt_ok(k, f) == f.key = k /\ f.len = EncryptedLen /\ ~f.flipped

\* CreditStore::load, as a function of the file found and the key derived.
load(f, k) ==
    IF ~f.exists THEN [status |-> "Fresh", ok |-> TRUE, data |-> CreditStoreData_default]
    ELSE IF f.len < NONCE_SIZE
    THEN [status |-> "TooShortFresh", ok |-> TRUE, data |-> CreditStoreData_default]
    ELSE IF ~decrypt_ok(k, f)
    THEN [status |-> "Encryption", ok |-> FALSE, data |-> CreditStoreData_default]
    ELSE [status |-> "Loaded", ok |-> TRUE, data |-> from_slice(f.pt)]

\* ------------------------------------------------------------------------
\* chains/base.rs: verification against the chain
\* ------------------------------------------------------------------------
\* The node parses the hash as a number: every spelling names one receipt.
Canon(tx_hash) == IF tx_hash = "0xAB" THEN "0xab" ELSE tx_hash

\* Receipts the Base node serves; each log is a USDC Transfer event.
Receipts ==
    [h \in {"0xab", "0xcd"} |->
        IF h = "0xab"
        THEN [status |-> "0x1", block_number |-> 1,
              logs |-> <<[usdc |-> TRUE, to_deposit |-> TRUE, from |-> "a1", amount |-> 1]>>]
        ELSE [status |-> "0x1", block_number |-> 1,
              logs |-> <<[usdc |-> TRUE, to_deposit |-> FALSE, from |-> "a2", amount |-> 1],
                         [usdc |-> TRUE, to_deposit |-> TRUE, from |-> "a2", amount |-> 2]>>]]

get_transaction_receipt(tx_hash) ==
    IF Canon(tx_hash) \in DOMAIN Receipts
    THEN [found |-> TRUE, receipt |-> Receipts[Canon(tx_hash)]]
    ELSE [found |-> FALSE, receipt |-> [status |-> "0x0", block_number |-> 0, logs |-> <<>>]]

\* Index of the first USDC Transfer log to the deposit address, 0 if none.
RECURSIVE FirstTransfer(_, _)
FirstTransfer(logs, i) ==
    IF i > Len(logs) THEN 0
    ELSE IF logs[i].usdc /\ logs[i].to_deposit THEN i
    ELSE FirstTransfer(logs, i + 1)

Verification(tag, verified, amount, confirmations) ==
    [tag |-> tag, verified |-> verified, amount_usdc |-> amount,
     confirmations |-> confirmations]

\* expected_amount is the Option<u64> of the payload: {} or {amount};
\* current_block is what get_block_number answers.
verify_usdc_transfer(tx_hash, expected_amount, current_block) ==
    LET r == get_transaction_receipt(tx_hash)
        i == FirstTransfer(r.receipt.logs, 1)
        verified_amount == IF i = 0 THEN 0 ELSE r.receipt.logs[i].amount
        \* current_block.saturating_sub(block_number)
        confirmations == IF current_block > r.receipt.block_number
                         THEN current_block - r.receipt.block_number ELSE 0
    IN IF ~r.found THEN Verification("TxNotFound", FALSE, 0, 0)
       ELSE IF r.receipt.status # "0x1" THEN Verification("TxFailed", FALSE, 0, 0)
       ELSE IF verified_amount = 0 THEN Verification("NoTransferFound", FALSE, 0, 0)
       ELSE IF \E expected \in expected_amount : verified_amount # expected
       THEN Verification("AmountMismatch", FALSE, 0, 0)
       ELSE Verification("Ok", TRUE, verified_amount, confirmations)

\* ------------------------------------------------------------------------
\* credits/pricing.rs
\* ------------------------------------------------------------------------
\* PricingCalculator::usdc_to_credits: self.config is not consulted.
usdc_to_credits(usdc_micro) == usdc_micro

TokenUsage_new(prompt_tokens, completion_tokens) ==
    [prompt_tokens |-> prompt_tokens, completion_tokens |-> completion_tokens]

PricingConfig(prompt, completion, minimum, ratio) ==
    [prompt_credits_per_million |-> prompt,
     completion_credits_per_million |-> completion,
     minimum_credits_per_message |-> minimum,
     usdc_to_credits_ratio |-> ratio]

\* Unchecked `a * b` on integers of the width that ends at max: the value
\* a release build computes, and whether a debug build panics instead.
mul(a, b, max) == [value |-> (a * b) % (max + 1), overflow |-> a * b > max]
\* `x as u32`
as_u32(x) == x % (U32_MAX + 1)
Max(a, b) == IF a >= b THEN a ELSE b

calculate_credits(usage, config) ==
    LET p == mul(usage.prompt_tokens, config.prompt_credits_per_million, U64_MAX)
        c == mul(usage.completion_tokens, config.completion_credits_per_million, U64_MAX)
        prompt_cost == p.value \div MILLION
        completion_cost == c.value \div MILLION
        total == prompt_cost + completion_cost
    IN [value |-> Max(total, config.minimum_credits_per_message),
        overflow |-> p.overflow \/ c.overflow]

estimate_credits(message_chars, config) ==
    LET estimated_prompt_tokens == as_u32(Max(message_chars \div CHARS_PER_TOKEN, 1))
        estimated_completion_tokens == mul(estimated_prompt_tokens, 2, U32_MAX)
        r == calculate_credits(TokenUsage_new(estimated_prompt_tokens,
                                              estimated_completion_tokens.value), config)
    IN [value |-> r.value,
        overflow |-> estimated_completion_tokens.overflow \/ r.overflow]

\* ------------------------------------------------------------------------
\* chains/{base,near,solana}.rs: verify_payment on each chain
\* ------------------------------------------------------------------------
\* Ok(PaymentVerification { amount_usdc, from, verified: true, .. })
Verified(amount, from) ==
    [tag |-> "Ok", verified |-> TRUE, amount_usdc |-> amount, from |-> from]
\* Err(PaymentError::<tag>)
Rejected(tag) ==
    [tag |-> tag, verified |-> FALSE, amount_usdc |-> 0, from |-> {}]

\* PaymentPayload: from and amount are Options, {} or {x}.
PaymentPayload(chain, tx_hash, user_id, from, amount) ==
    [chain |-> chain, tx_hash |-> tx_hash, user_id |-> user_id,
     from |-> from, amount |-> amount]

\* Receipts of the Base node: the ones above, one of a transaction with
\* two transfers to the deposit address, and one of a reverted transaction.
BaseReceipts ==
    Receipts @@
    [h \in {"0xef", "0xff"} |->
        IF h = "0xef"
        THEN [status |-> "0x1",
              logs |-> <<[usdc |-> TRUE, to_deposit |-> TRUE, from |-> "a1", amount |-> 1],
                         [usdc |-> TRUE, to_deposit |-> TRUE, from |-> "a1", amount |-> 2]>>]
        ELSE [status |-> "0x0",
              logs |-> <<[usdc |-> TRUE, to_deposit |-> TRUE, from |-> "a1", amount |-> 1]>>]]

BaseFacilitator_verify_usdc_transfer(tx_hash, expected_from, expected_amount) ==
    IF Canon(tx_hash) \notin DOMAIN BaseReceipts THEN Rejected("TxNotFound")
    ELSE LET receipt == BaseReceipts[Canon(tx_hash)]
             i == FirstTransfer(receipt.logs, 1)
             verified_amount == IF i = 0 THEN 0 ELSE receipt.logs[i].amount
             verified_from == IF i = 0 THEN {} ELSE {receipt.logs[i].from}
         IN IF receipt.status # "0x1" THEN Rejected("TxFailed")
            ELSE IF verified_amount = 0 THEN Rejected("NoTransferFound")
            ELSE IF \E expected \in expected_from, actual \in verified_from :
                       actual # expected
            THEN Rejected("SenderMismatch")
            ELSE IF \E expected \in expected_amount : verified_amount # expected
            THEN Rejected("AmountMismatch")
            ELSE Verified(verified_amount, verified_from)

\* Transactions the NEAR node knows.  n2 carries two ft_transfer actions.
NearTxs ==
    [h \in {"n1", "n2", "n3", "n4", "n5", "n6"} |->
        CASE h = "n1" ->
               [signer_id |-> "a1", success |-> TRUE, receiver_id |-> "usdc",
                actions |-> <<[method_name |-> "ft_transfer", receiver_id |-> "deposit", amount |-> 1, memo |-> {}]>>]
          [] h = "n2" ->
               [signer_id |-> "a1", success |-> TRUE, receiver_id |-> "usdc",
                actions |-> <<[method_name |-> "ft_transfer", receiver_id |-> "deposit", amount |-> 1, memo |-> {}],
                              [method_name |-> "ft_transfer", receiver_id |-> "deposit", amount |-> 2, memo |-> {}]>>]
          [] h = "n3" ->
               [signer_id |-> "a2", success |-> FALSE, receiver_id |-> "usdc",
                actions |-> <<[method_name |-> "ft_transfer", receiver_id |-> "deposit", amount |-> 1, memo |-> {}]>>]
          [] h = "n4" ->
               [signer_id |-> "a2", success |-> TRUE, receiver_id |-> "other",
                actions |-> <<[method_name |-> "ft_transfer", receiver_id |-> "deposit", amount |-> 1, memo |-> {}]>>]
          [] h = "n5" ->
               [signer_id |-> "a1", success |-> TRUE, receiver_id |-> "usdc",
                actions |-> <<[method_name |-> "ft_transfer", receiver_id |-> "deposit", amount |-> 1, memo |-> {"u1"}]>>]
          [] h = "n6" ->
               [signer_id |-> "a1", success |-> TRUE, receiver_id |-> "usdc",
                actions |-> <<[method_name |-> "ft_transfer", receiver_id |-> "deposit", amount |-> 1, memo |-> {"u2"}]>>]]

\* Index of the first ft_transfer action, 0 if none.
RECURSIVE FirstFtTransfer(_, _)
FirstFtTransfer(actions, i) ==
    IF i > Len(actions) THEN 0
    ELSE IF actions[i].method_name = "ft_transfer" THEN i
    ELSE FirstFtTransfer(actions, i + 1)

\* The "tx" RPC call: sender_account_id only selects the shard to ask, so
\* with another account than the signer the node answers when that
\* account happens to live on the signer's shard (routed).
get_tx_status_internal(tx_hash, sender_id, routed) ==
    /\ tx_hash \in DOMAIN NearTxs
    /\ (NearTxs[tx_hash].signer_id = sender_id \/ routed)

\* NearFacilitator_verify_usdc_transfer that rejects a transfer whose memo
\* is not the expected one.
NearFacilitator_verify_usdc_transfer_memo(tx_hash, expected_sender, expected_amount, expected_memo, routed) ==
    IF expected_sender = {} THEN Rejected("InvalidPayload")
    ELSE LET sender == CHOOSE x \in expected_sender : TRUE
         IN IF ~get_tx_status_internal(tx_hash, sender, routed) THEN Rejected("RpcError")
            ELSE LET tx == NearTxs[tx_hash]
                     i == FirstFtTransfer(tx.actions, 1)
                 IN IF ~tx.success THEN Rejected("TxFailed")
                    ELSE IF tx.receiver_id # "usdc" THEN Rejected("VerificationFailed")
                    ELSE IF i = 0 THEN Rejected("NoTransferFound")
                    ELSE IF tx.actions[i].receiver_id # "deposit"
                    THEN Rejected("NoTransferFound")
                    ELSE IF \E expected \in expected_amount : tx.actions[i].amount # expected
                    THEN Rejected("AmountMismatch")
                    ELSE IF expected_memo # "" /\ tx.actions[i].memo # {expected_memo}
                    THEN Rejected("VerificationFailed")
                    ELSE Verified(tx.actions[i].amount, {sender})

NearFacilitator_verify_usdc_transfer(tx_hash, expected_sender, expected_amount, expected_memo, routed) ==
    IF expected_sender = {} THEN Rejected("InvalidPayload")
    ELSE LET sender == CHOOSE x \in expected_sender : TRUE
         IN IF ~get_tx_status_internal(tx_hash, sender, routed) THEN Rejected("RpcError")
            ELSE LET tx == NearTxs[tx_hash]
                     i == FirstFtTransfer(tx.actions, 1)
                 IN IF ~tx.success THEN Rejected("TxFailed")
                    ELSE IF tx.receiver_id # "usdc" THEN Rejected("VerificationFailed")
                    ELSE IF i = 0 THEN Rejected("NoTransferFound")
                    ELSE IF tx.actions[i].receiver_id # "deposit"
                    THEN Rejected("NoTransferFound")
                    ELSE IF \E expected \in expected_amount : tx.actions[i].amount # expected
                    THEN Rejected("AmountMismatch")
                    ELSE IF expected_memo # "" /\ tx.actions[i].memo # {expected_memo}
                    THEN Verified(tx.actions[i].amount, {sender})   \* warn! only
                    ELSE Verified(tx.actions[i].amount, {sender})

\* Transactions the Solana node knows, with the token balances before and
\* after.  In s2 the node reports no owner for the debited token account;
\* in s4 a2 pays 2 to a third party and a1 pays 1 to the wallet.
TokenBalance(account_index, usdc, owner, amount) ==
    [account_index |-> account_index, usdc |-> usdc, owner |-> owner, amount |-> amount]

SolanaTxs ==
    [h \in {"s1", "s2", "s3", "s4"} |->
        CASE h = "s1" ->
               [err |-> FALSE,
                pre |-> <<TokenBalance(1, TRUE, {"wallet"}, 0), TokenBalance(2, TRUE, {"a1"}, 2)>>,
                post |-> <<TokenBalance(1, TRUE, {"wallet"}, 2), TokenBalance(2, TRUE, {"a1"}, 0)>>]
          [] h = "s2" ->
               [err |-> FALSE,
                pre |-> <<TokenBalance(1, TRUE, {"wallet"}, 0), TokenBalance(2, TRUE, {}, 1)>>,
                post |-> <<TokenBalance(1, TRUE, {"wallet"}, 1), TokenBalance(2, TRUE, {}, 0)>>]
          [] h = "s3" ->
               [err |-> TRUE,
                pre |-> <<TokenBalance(1, TRUE, {"wallet"}, 0), TokenBalance(2, TRUE, {"a2"}, 1)>>,
                post |-> <<TokenBalance(1, TRUE, {"wallet"}, 0), TokenBalance(2, TRUE, {"a2"}, 1)>>]
          [] h = "s4" ->
               [err |-> FALSE,
                pre |-> <<TokenBalance(1, TRUE, {"wallet"}, 0), TokenBalance(2, TRUE, {"a2"}, 3),
                          TokenBalance(3, TRUE, {"a1"}, 1), TokenBalance(4, TRUE, {"other"}, 0)>>,
                post |-> <<TokenBalance(1, TRUE, {"wallet"}, 1), TokenBalance(2, TRUE, {"a2"}, 1),
                           TokenBalance(3, TRUE, {"a1"}, 0), TokenBalance(4, TRUE, {"other"}, 2)>>]]

\* balances.iter().find(|p| p.account_index == idx).map(amount).unwrap_or(0)
AmountAt(balances, idx) ==
    IF \E j \in DOMAIN balances : balances[j].account_index = idx
    THEN balances[CHOOSE j \in DOMAIN balances :
                    /\ balances[j].account_index = idx
                    /\ \A k \in DOMAIN balances :
                          balances[k].account_index = idx => j <= k].amount
    ELSE 0

\* Index of the first post balance of the wallet in USDC that grew, 0 if none.
RECURSIVE FirstCredit(_, _, _)
FirstCredit(post, pre, i) ==
    IF i > Len(post) THEN 0
    ELSE IF /\ post[i].usdc /\ post[i].owner = {"wallet"}
            /\ post[i].amount > AmountAt(pre, post[i].account_index)
    THEN i
    ELSE FirstCredit(post, pre, i + 1)

\* Index of the first USDC pre balance that shrank, 0 if none.
RECURSIVE FirstDebit(_, _, _)
FirstDebit(pre, post, j) ==
    IF j > Len(pre) THEN 0
    ELSE IF /\ pre[j].usdc
            /\ \E k \in DOMAIN post : post[k].account_index = pre[j].account_index
            /\ pre[j].amount > AmountAt(post, pre[j].account_index)
    THEN j
    ELSE FirstDebit(pre, post, j + 1)

SolanaFacilitator_verify_usdc_transfer(signature, expected_from, expected_amount) ==
    IF signature \notin DOMAIN SolanaTxs THEN Rejected("TxNotFound")
    ELSE LET tx == SolanaTxs[signature]
             i == FirstCredit(tx.post, tx.pre, 1)
             j == FirstDebit(tx.pre, tx.post, 1)
             verified_amount ==
                 IF i = 0 THEN 0
                 ELSE tx.post[i].amount - AmountAt(tx.pre, tx.post[i].account_index)
             verified_from == IF i = 0 \/ j = 0 THEN {} ELSE tx.pre[j].owner
         IN IF tx.err THEN Rejected("TxFailed")
            ELSE IF verified_amount = 0 THEN Rejected("NoTransferFound")
            ELSE IF \E expected \in expected_from, actual \in verified_from :
                       actual # expected
            THEN Rejected("SenderMismatch")
            ELSE IF \E expected \in expected_amount : verified_amount # expected
            THEN Rejected("AmountMismatch")
            ELSE Verified(verified_amount, verified_from)

\* ChainFacilitator::verify_payment of the facilitator of payload.chain.
verify_payment(payload, routed) ==
    CASE payload.chain = "Base" ->
           BaseFacilitator_verify_usdc_transfer(payload.tx_hash, payload.from, payload.amount)
      [] payload.chain = "Near" ->
           NearFacilitator_verify_usdc_transfer(payload.tx_hash, payload.from, payload.amount,
                                                payload.user_id, routed)
      [] payload.chain = "Solana" ->
           SolanaFacilitator_verify_usdc_transfer(payload.tx_hash, payload.from, payload.amount)

\* What is on each chain: whether the transaction exists and succeeded,
\* how much of the token it moved to the deposit address, and who sent it.
RECURSIVE SumSeq(_, _)
SumSeq(f, i) == IF i > Len(f) THEN 0 ELSE f[i] + SumSeq(f, i + 1)

OnChain(chain, tx_hash) ==
    CASE chain = "Base" ->
           IF Canon(tx_hash) \notin DOMAIN BaseReceipts
           THEN [exists |-> FALSE, success |-> FALSE, moved |-> 0, senders |-> {}]
           ELSE LET logs == BaseReceipts[Canon(tx_hash)].logs
                    ok == BaseReceipts[Canon(tx_hash)].status = "0x1"
                    hit(k) == logs[k].usdc /\ logs[k].to_deposit
                IN [exists |-> TRUE, success |-> ok,
                    moved |-> IF ok THEN SumSeq([k \in DOMAIN logs |->
                                  IF hit(k) THEN logs[k].amount ELSE 0], 1) ELSE 0,
                    senders |-> {logs[k].from : k \in {m \in DOMAIN logs : hit(m)}}]
      [] chain = "Near" ->
           IF tx_hash \notin DOMAIN NearTxs
           THEN [exists |-> FALSE, success |-> FALSE, moved |-> 0, senders |-> {}]
           ELSE LET tx == NearTxs[tx_hash]
                    hit(k) == /\ tx.receiver_id = "usdc"
                              /\ tx.actions[k].method_name = "ft_transfer"
                              /\ tx.actions[k].receiver_id = "deposit"
                IN [exists |-> TRUE, success |-> tx.success,
                    moved |-> IF tx.success THEN SumSeq([k \in DOMAIN tx.actions |->
                                  IF hit(k) THEN tx.actions[k].amount ELSE 0], 1) ELSE 0,
                    senders |-> {tx.signer_id}]
      [] chain = "Solana" ->
           IF tx_hash \notin DOMAIN SolanaTxs
           THEN [exists |-> FALSE, success |-> FALSE, moved |-> 0, senders |-> {}]
           ELSE LET tx == SolanaTxs[tx_hash]
                    gain(k) == IF tx.post[k].usdc /\ tx.post[k].owner = {"wallet"}
                                  /\ tx.post[k].amount > AmountAt(tx.pre, tx.post[k].account_index)
                               THEN tx.post[k].amount - AmountAt(tx.pre, tx.post[k].account_index)
                               ELSE 0
                IN [exists |-> TRUE, success |-> ~tx.err,
                    moved |-> IF tx.err THEN 0
                              ELSE SumSeq([k \in DOMAIN tx.post |-> gain(k)], 1),
                    senders |-> UNION {tx.pre[k].owner : k \in {m \in DOMAIN tx.pre :
                                  tx.pre[m].usdc /\
                                  tx.pre[m].amount > AmountAt(tx.post, tx.pre[m].account_index)}}]

\* config: Base is the enabled chain of the modelled deployment.
chain_enabled(chain) == chain = "Base"

\* ------------------------------------------------------------------------
\* sweeper.rs
\* ------------------------------------------------------------------------
\* The facilitators lib.rs hands to the sweeper, in the order it pushes them.
SweepChains == <<"Base", "Near", "Solana">>

saturating_sub(a, b) == IF a < b THEN 0 ELSE a - b

\* get_operator_address: an Option, {} or {addr}.
get_operator_address(operator_addresses, chain) == operator_addresses[chain]

\* timestamp is chrono::Utc::now() at the time the record is built.
SweepRecord(chain, to, amount, success, timestamp) ==
    [chain |-> chain, from |-> "deposit", to |-> to, amount |-> amount,
     success |-> success, timestamp |-> timestamp]

\* The calls the sweeper makes on a facilitator, with what came back.
BalanceCall(chain, balance) ==
    [chain |-> chain, call |-> "get_deposit_wallet_balance",
     destination |-> "", amount |-> 0, answer |-> balance]
TransferCall(chain, destination, amount, tx_result) ==
    [chain |-> chain, call |-> "transfer_to",
     destination |-> destination, amount |-> amount, answer |-> tx_result]

\* What get_deposit_wallet_balance can answer: an RPC error or a balance.
BalanceAnswers ==
    {[ok |-> FALSE, value |-> 0]} \cup {[ok |-> TRUE, value |-> v] : v \in {1, U64_MAX}}

\* What transfer_to can answer: Base returns UnsupportedChain; NEAR and
\* Solana return a TxResult, successful or not, or an error.
TransferAnswers(chain) ==
    IF chain = "Base" THEN {[ok |-> FALSE, value |-> FALSE]}
    ELSE {[ok |-> TRUE, value |-> TRUE], [ok |-> TRUE, value |-> FALSE],
          [ok |-> FALSE, value |-> FALSE]}

SweepOutcome(calls, result, records) ==
    [calls |-> calls, result |-> result, records |-> records]

\* sweep_chain that sweeps the whole balance, leaving no gas reserve.
sweep_chain_full_balance(chain, operator_addresses, config, balance, tx_result, now) ==
    LET operator_addr == get_operator_address(operator_addresses, chain)
        q == BalanceCall(chain, balance)
        sweep_amount == balance.value
    IN IF operator_addr = {} THEN SweepOutcome(<<>>, "None", <<>>)
       ELSE IF ~balance.ok THEN SweepOutcome(<<q>>, "Err", <<>>)
       ELSE IF balance.value < config.min_amount_usdc THEN SweepOutcome(<<q>>, "None", <<>>)
       ELSE IF sweep_amount = 0 THEN SweepOutcome(<<q>>, "None", <<>>)
       ELSE LET addr == CHOOSE a \in operator_addr : TRUE
                c == TransferCall(chain, addr, sweep_amount, tx_result)
            IN IF ~tx_result.ok THEN SweepOutcome(<<q, c>>, "Err", <<>>)
               ELSE SweepOutcome(<<q, c>>, "Some",
                        <<SweepRecord(chain, addr, sweep_amount, tx_result.value, now)>>)

\* sweep_chain that asks for the balance before it looks for the
\* operator address.
sweep_chain_query_first(chain, operator_addresses, config, balance, tx_result, now) ==
    LET operator_addr == get_operator_address(operator_addresses, chain)
        q == BalanceCall(chain, balance)
        sweep_amount == saturating_sub(balance.value, config.reserve_for_gas)
    IN IF ~balance.ok THEN SweepOutcome(<<q>>, "Err", <<>>)
       ELSE IF operator_addr = {} THEN SweepOutcome(<<q>>, "None", <<>>)
       ELSE IF balance.value < config.min_amount_usdc THEN SweepOutcome(<<q>>, "None", <<>>)
       ELSE IF sweep_amount = 0 THEN SweepOutcome(<<q>>, "None", <<>>)
       ELSE LET addr == CHOOSE a \in operator_addr : TRUE
                c == TransferCall(chain, addr, sweep_amount, tx_result)
            IN IF ~tx_result.ok THEN SweepOutcome(<<q, c>>, "Err", <<>>)
               ELSE SweepOutcome(<<q, c>>, "Some",
                        <<SweepRecord(chain, addr, sweep_amount, tx_result.value, now)>>)

\* sweep_chain that builds a record only for a transfer that succeeded.
sweep_chain_only_success(chain, operator_addresses, config, balance, tx_result, now) ==
    LET operator_addr == get_operator_address(operator_addresses, chain)
        q == BalanceCall(chain, balance)
        sweep_amount == saturating_sub(balance.value, config.reserve_for_gas)
    IN IF operator_addr = {} THEN SweepOutcome(<<>>, "None", <<>>)
       ELSE IF ~balance.ok THEN SweepOutcome(<<q>>, "Err", <<>>)
       ELSE IF balance.value < config.min_amount_usdc THEN SweepOutcome(<<q>>, "None", <<>>)
       ELSE IF sweep_amount = 0 THEN SweepOutcome(<<q>>, "None", <<>>)
       ELSE LET addr == CHOOSE a \in operator_addr : TRUE
                c == TransferCall(chain, addr, sweep_amount, tx_result)
            IN IF ~tx_result.ok THEN SweepOutcome(<<q, c>>, "Err", <<>>)
               ELSE IF ~tx_result.value THEN SweepOutcome(<<q, c>>, "None", <<>>)
               ELSE SweepOutcome(<<q, c>>, "Some",
                        <<SweepRecord(chain, addr, sweep_amount, tx_result.value, now)>>)

\* FundSweeper::sweep_chain, given what the facilitator answers: the calls
\* it makes and Ok(None), Ok(Some(record)) or Err.
sweep_chain(chain, operator_addresses, config, balance, tx_result, now) ==
    LET operator_addr == get_operator_address(operator_addresses, chain)
        q == BalanceCall(chain, balance)
        sweep_amount == saturating_sub(balance.value, config.reserve_for_gas)
    IN IF operator_addr = {} THEN SweepOutcome(<<>>, "None", <<>>)
       ELSE IF ~balance.ok THEN SweepOutcome(<<q>>, "Err", <<>>)
       ELSE IF balance.value < config.min_amount_usdc THEN SweepOutcome(<<q>>, "None", <<>>)
       ELSE IF sweep_amount = 0 THEN SweepOutcome(<<q>>, "None", <<>>)
       ELSE LET addr == CHOOSE a \in operator_addr : TRUE
                c == TransferCall(chain, addr, sweep_amount, tx_result)
            IN IF ~tx_result.ok THEN SweepOutcome(<<q, c>>, "Err", <<>>)
               ELSE SweepOutcome(<<q, c>>, "Some",
                        <<SweepRecord(chain, addr, sweep_amount, tx_result.value, now)>>)

\* extend_history that keeps the first SWEEP_HISTORY_MAX records.
extend_history_keep_first(history, records) ==
    LET h == history \o records
    IN IF Len(h) > SWEEP_HISTORY_MAX
       THEN SubSeq(h, 1, SWEEP_HISTORY_MAX)
       ELSE h

\* history.extend(records), then keep the last SWEEP_HISTORY_MAX records.
extend_history(history, records) ==
    LET h == history \o records
    IN IF Len(h) > SWEEP_HISTORY_MAX
       THEN SubSeq(h, Len(h) - SWEEP_HISTORY_MAX + 1, Len(h))
       ELSE h

\* ------------------------------------------------------------------------
\* State
\* ------------------------------------------------------------------------
VARIABLES
    cfg,    \* the scenario: which store instances exist, which calls run
    env,    \* the surroundings: failing components, the key the TEE derives
    sw,     \* the FundSweeper: its configuration, its cycle, its history
    data,   \* CreditStore.data of each store instance
    up,     \* whether the instance was constructed successfully
    boot,   \* which path load() took when the instance was constructed
    key,    \* CreditStore.cached_key of each instance
    lock,   \* the RwLock around data: its writer and its readers
    file,   \* the file at storage_path
    tmp,    \* the file at storage_path.with_extension("tmp")
    pc,     \* position of each call
    op,     \* the call each task makes and its arguments
    res,    \* the result of the call (returned once pc = "done")
    buf     \* the encrypted bytes a persist is about to write

vars == <<cfg, env, sw, data, up, boot, key, lock, file, tmp, pc, op, res, buf>>

NoDeposit == Deposit_new_pending("", "Base", "", 0, 0)
NoUsage == UsageRecord_new("", "", 0, 0, 0)
NoRequest == [chain |-> "Base", tx_hash |-> "", user_id |-> "", amount |-> 0]
NoOp == [kind |-> "none", store |-> "server", deposit |-> NoDeposit,
         user_id |-> "", credits |-> 0, usage |-> NoUsage, request |-> NoRequest]
Free == [writer |-> {}, readers |-> {}]
\* What a call of the store depends on and can find failing: the dstack
\* socket (key derivation), the cipher, and the file system; env.block is
\* the height of the Base chain.
Components == {"dstack", "cipher", "disk"}
Healthy == [down |-> {}, tee_key |-> "k1", block |-> 1]
\* Before FundSweeper::new.
NoSweeper ==
    [pc |-> "none",
     operator_addresses |-> [c \in {"Base", "Near", "Solana"} |-> {}],
     config |-> [interval |-> 0, min_amount_usdc |-> 0, reserve_for_gas |-> 0],
     i |-> 0, calls |-> <<>>, records |-> <<>>, sweep_history |-> <<>>, cycles |-> 0,
     now |-> 1]

Scenario(sequential, tasks, stores, users, txs, chains, amounts, nonces) ==
    [sequential |-> sequential, tasks |-> tasks, stores |-> stores,
     users |-> users, txs |-> txs, chains |-> chains, amounts |-> amounts,
     nonces |-> nonces]

\* The state after construction on a path that holds no file yet.
InitStore(c) ==
    /\ cfg = c
    /\ env = Healthy
    /\ data = [s \in Stores |-> CreditStoreData_default]
    /\ up = [s \in Stores |-> s \in c.stores]
    /\ boot = [s \in Stores |-> IF s \in c.stores THEN "Fresh" ELSE "None"]
    /\ key = [s \in Stores |-> "k1"]
    /\ lock = [s \in Stores |-> Free]
    /\ file = NoFile
    /\ tmp = NoFile
    /\ pc = [t \in AllTasks |-> "idle"]
    /\ op = [t \in AllTasks |-> NoOp]
    /\ res = [t \in AllTasks |-> NoRes]
    /\ buf = [t \in AllTasks |-> NoFile]

\* The same, before the fund sweeper is constructed.
InitWith(c) == sw = NoSweeper /\ InitStore(c)

Finished(t) == pc[t] \in {"idle", "done", "aborted"}

\* A caller issues its call; in a sequential run only after the previous
\* call has returned.
CanStart(t) ==
    /\ t \in cfg.tasks
    /\ pc[t] = "idle"
    /\ (IF t = 1 THEN TRUE ELSE pc[t - 1] # "idle")
    /\ (cfg.sequential => \A u \in AllTasks \ {t} : Finished(u))

\* The chat path works on the instance main.rs built; the HTTP server on
\* the instance spawn_payment_server built.
ChatStore == IF "bot" \in cfg.stores THEN "bot" ELSE "server"

\* A direct call of CreditStore::add_credits (as the unit tests make).
StartAdd(t) ==
    /\ CanStart(t)
    /\ up["server"]
    /\ \E u \in cfg.users, c \in cfg.chains, h \in cfg.txs, a \in cfg.amounts :
         op' = [op EXCEPT ![t] = [NoOp EXCEPT !.kind = "add", !.store = "server",
                    !.deposit = Deposit_new_pending(u, c, h, a, a)]]
    /\ pc' = [pc EXCEPT ![t] = "add_wlock"]
    /\ UNCHANGED <<cfg, sw, env, data, up, boot, key, lock, file, tmp, res, buf>>

\* A call of CreditStore::deduct_credits (chat.rs, after a response).
StartDeduct(t) ==
    /\ CanStart(t)
    /\ up[ChatStore]
    /\ \E u \in cfg.users, c \in cfg.amounts :
         op' = [op EXCEPT ![t] = [NoOp EXCEPT !.kind = "deduct", !.store = ChatStore,
                    !.user_id = u, !.credits = c,
                    !.usage = UsageRecord_new(u, u, 1, 1, c)]]
    /\ pc' = [pc EXCEPT ![t] = "deduct_wlock"]
    /\ UNCHANGED <<cfg, sw, env, data, up, boot, key, lock, file, tmp, res, buf>>

\* A POST /v1/deposit request arrives.
StartDeposit(t) ==
    /\ CanStart(t)
    /\ up["server"]
    /\ \E u \in cfg.users, c \in cfg.chains, h \in cfg.txs, a \in cfg.amounts :
         op' = [op EXCEPT ![t] = [NoOp EXCEPT !.kind = "http", !.store = "server",
                    !.request = [chain |-> c, tx_hash |-> h, user_id |-> u, amount |-> a]]]
    /\ pc' = [pc EXCEPT ![t] = "http_check"]
    /\ UNCHANGED <<cfg, sw, env, data, up, boot, key, lock, file, tmp, res, buf>>

\* The StatusCode process_deposit answers with, by outcome.
StatusOf(tag) ==
    CASE tag = "Ok" -> 200
      [] tag \in {"CHAIN_DISABLED", "VERIFICATION_FAILED"} -> 400
      [] tag \in {"DUPLICATE_TX", "DuplicateTransaction"} -> 409
      [] OTHER -> 500

\* process_deposit_check with the duplicate check made before the check
\* of the chain.
process_deposit_check_dup_first(t) ==
    /\ pc[t] = "http_check"
    /\ LET rq == op[t].request
           s == op[t].store
       IN /\ lock[s].writer = {}
          /\ IF is_tx_processed(data[s], rq.tx_hash)
             THEN /\ res' = [res EXCEPT ![t] = Err("DUPLICATE_TX")]
                  /\ pc' = [pc EXCEPT ![t] = "done"]
             ELSE IF ~chain_enabled(rq.chain)
             THEN /\ res' = [res EXCEPT ![t] = Err("CHAIN_DISABLED")]
                  /\ pc' = [pc EXCEPT ![t] = "done"]
             ELSE /\ res' = res
                  /\ pc' = [pc EXCEPT ![t] = "http_verify"]
    /\ UNCHANGED <<cfg, sw, env, data, up, boot, key, lock, file, tmp, op, buf>>

\* process_deposit up to the duplicate pre-check.
process_deposit_check(t) ==
    /\ pc[t] = "http_check"
    /\ LET rq == op[t].request
           s == op[t].store
       IN IF ~chain_enabled(rq.chain)
          THEN /\ res' = [res EXCEPT ![t] = Err("CHAIN_DISABLED")]
               /\ pc' = [pc EXCEPT ![t] = "done"]
          ELSE /\ lock[s].writer = {}
               /\ IF is_tx_processed(data[s], rq.tx_hash)
                  THEN /\ res' = [res EXCEPT ![t] = Err("DUPLICATE_TX")]
                       /\ pc' = [pc EXCEPT ![t] = "done"]
                  ELSE /\ res' = res
                       /\ pc' = [pc EXCEPT ![t] = "http_verify"]
    /\ UNCHANGED <<cfg, sw, env, data, up, boot, key, lock, file, tmp, op, buf>>

\* process_deposit_verify that skips the comparison with the claimed amount
\* and grants the amount the request claims.
process_deposit_verify_claimed(t) ==
    /\ pc[t] = "http_verify"
    /\ LET rq == op[t].request
           v == verify_usdc_transfer(rq.tx_hash, {}, env.block)
           credits == usdc_to_credits(rq.amount)
       IN IF v.tag # "Ok" \/ ~v.verified
          THEN /\ res' = [res EXCEPT ![t] = Err("VERIFICATION_FAILED")]
               /\ pc' = [pc EXCEPT ![t] = "done"]
               /\ op' = op
          ELSE /\ op' = [op EXCEPT ![t].deposit =
                     Deposit_confirm(Deposit_new_pending(rq.user_id, rq.chain,
                                         rq.tx_hash, rq.amount, credits))]
               /\ pc' = [pc EXCEPT ![t] = "add_wlock"]
               /\ res' = res
    /\ UNCHANGED <<cfg, sw, env, data, up, boot, key, lock, file, tmp, buf>>

\* process_deposit_verify that stores the deposit without confirming it.
process_deposit_verify_pending(t) ==
    /\ pc[t] = "http_verify"
    /\ LET rq == op[t].request
           v == verify_usdc_transfer(rq.tx_hash, {rq.amount}, env.block)
           credits == usdc_to_credits(v.amount_usdc)
       IN IF v.tag # "Ok" \/ ~v.verified
          THEN /\ res' = [res EXCEPT ![t] = Err("VERIFICATION_FAILED")]
               /\ pc' = [pc EXCEPT ![t] = "done"]
               /\ op' = op
          ELSE /\ op' = [op EXCEPT ![t].deposit =
                     Deposit_new_pending(rq.user_id, rq.chain,
                                         rq.tx_hash, v.amount_usdc, credits)]
               /\ pc' = [pc EXCEPT ![t] = "add_wlock"]
               /\ res' = res
    /\ UNCHANGED <<cfg, sw, env, data, up, boot, key, lock, file, tmp, buf>>

\* process_deposit_verify that credits only a verification with at least
\* one confirmation (PaymentVerification::is_confirmed(1)).
process_deposit_verify_confirmed(t) ==
    /\ pc[t] = "http_verify"
    /\ LET rq == op[t].request
           v == verify_usdc_transfer(rq.tx_hash, {rq.amount}, env.block)
           credits == usdc_to_credits(v.amount_usdc)
       IN IF v.tag # "Ok" \/ ~(v.verified /\ v.confirmations >= 1)
          THEN /\ res' = [res EXCEPT ![t] = Err("VERIFICATION_FAILED")]
               /\ pc' = [pc EXCEPT ![t] = "done"]
               /\ op' = op
          ELSE /\ op' = [op EXCEPT ![t].deposit =
                     Deposit_confirm(Deposit_new_pending(rq.user_id, rq.chain,
                                         rq.tx_hash, v.amount_usdc, credits))]
               /\ pc' = [pc EXCEPT ![t] = "add_wlock"]
               /\ res' = res
    /\ UNCHANGED <<cfg, sw, env, data, up, boot, key, lock, file, tmp, buf>>

\* process_deposit: on-chain verification and construction of the deposit.
process_deposit_verify(t) ==
    /\ pc[t] = "http_verify"
    /\ LET rq == op[t].request
           v == verify_usdc_transfer(rq.tx_hash, {rq.amount}, env.block)
           credits == usdc_to_credits(v.amount_usdc)
       IN IF v.tag # "Ok" \/ ~v.verified
          THEN /\ res' = [res EXCEPT ![t] = Err("VERIFICATION_FAILED")]
               /\ pc' = [pc EXCEPT ![t] = "done"]
               /\ op' = op
          ELSE /\ op' = [op EXCEPT ![t].deposit =
                     Deposit_confirm(Deposit_new_pending(rq.user_id, rq.chain,
                                         rq.tx_hash, v.amount_usdc, credits))]
               /\ pc' = [pc EXCEPT ![t] = "add_wlock"]
               /\ res' = res
    /\ UNCHANGED <<cfg, sw, env, data, up, boot, key, lock, file, tmp, buf>>

\* The read-only calls of the store.
ReadKinds == {"get_balance", "has_credits", "is_tx_processed", "get_deposits", "get_usage"}

ReadResult(kind, d, user_id, tx_hash, amount) ==
    CASE kind = "get_balance" -> get_balance(d, user_id)
      [] kind = "has_credits" -> has_credits(d, user_id, amount)
      [] kind = "is_tx_processed" -> is_tx_processed(d, tx_hash)
      [] kind = "get_deposits" -> get_deposits(d, user_id)
      [] kind = "get_usage" -> get_usage(d, user_id)

\* Read where get_balance goes through balances.entry(id).or_insert_with.
Read_or_insert(t) ==
    /\ CanStart(t)
    /\ up["server"]
    /\ lock["server"].writer = {}
    /\ \E kind \in ReadKinds, u \in cfg.users, h \in cfg.txs, a \in cfg.amounts :
         /\ op' = [op EXCEPT ![t] = [NoOp EXCEPT !.kind = kind, !.store = "server",
                       !.user_id = u, !.credits = a, !.request.tx_hash = h]]
         /\ res' = [res EXCEPT ![t] = Value(ReadResult(kind, data["server"], u, h, a))]
         /\ data' = IF kind = "get_balance"
                    THEN [data EXCEPT !["server"].balances =
                             (u :> get_balance(data["server"], u)) @@ @]
                    ELSE data
    /\ pc' = [pc EXCEPT ![t] = "done"]
    /\ UNCHANGED <<cfg, sw, env, up, boot, key, lock, file, tmp, buf>>

\* A read-only call: it takes data.read(), computes its answer and
\* returns; the read guard is gone when it returns.
Read(t) ==
    /\ CanStart(t)
    /\ up["server"]
    /\ lock["server"].writer = {}
    /\ \E kind \in ReadKinds, u \in cfg.users, h \in cfg.txs, a \in cfg.amounts :
         /\ op' = [op EXCEPT ![t] = [NoOp EXCEPT !.kind = kind, !.store = "server",
                       !.user_id = u, !.credits = a, !.request.tx_hash = h]]
         /\ res' = [res EXCEPT ![t] = Value(ReadResult(kind, data["server"], u, h, a))]
    /\ pc' = [pc EXCEPT ![t] = "done"]
    /\ UNCHANGED <<cfg, sw, env, data, up, boot, key, lock, file, tmp, buf>>

\* The chains of the Chain enum and the transaction ids a caller may name
\* on each ("zz" is known to no node).
AllChains == {"Base", "Near", "Solana"}
TxsOf(chain) ==
    CASE chain = "Base" -> DOMAIN BaseReceipts \cup {"zz"}
      [] chain = "Near" -> DOMAIN NearTxs \cup {"zz"}
      [] chain = "Solana" -> DOMAIN SolanaTxs \cup {"zz"}
Senders == {"a1", "a2"}

\* A caller asks the facilitator of a chain to verify a payment.
Verify(t) ==
    /\ CanStart(t)
    /\ \E chain \in cfg.chains, routed \in BOOLEAN, user_id \in cfg.users :
         \E h \in TxsOf(chain),
            from \in {{}} \cup {{a} : a \in Senders},
            amount \in {{}} \cup {{a} : a \in cfg.amounts} :
           /\ (chain # "Near" => routed)
           /\ op' = [op EXCEPT ![t] =
                        [kind |-> "verify", routed |-> routed,
                         payload |-> PaymentPayload(chain, h, user_id, from, amount)] @@ NoOp]
           /\ res' = [res EXCEPT ![t] =
                        Value(verify_payment(PaymentPayload(chain, h, user_id, from, amount), routed))]
    /\ pc' = [pc EXCEPT ![t] = "done"]
    /\ UNCHANGED <<cfg, sw, env, data, up, boot, key, lock, file, tmp, buf>>

\* self.data.write().await
AcquireWrite(t) ==
    /\ pc[t] \in {"add_wlock", "deduct_wlock"}
    /\ lock[op[t].store] = Free
    /\ lock' = [lock EXCEPT ![op[t].store].writer = {t}]
    /\ pc' = [pc EXCEPT ![t] = IF pc[t] = "add_wlock" THEN "add_cs" ELSE "deduct_cs"]
    /\ UNCHANGED <<cfg, sw, env, data, up, boot, key, file, tmp, op, res, buf>>

\* The block of add_credits that runs under the write guard; the guard is
\* dropped at the end of the block, before persist.
add_credits(t) ==
    /\ pc[t] = "add_cs"
    /\ LET s == op[t].store
           r == add_credits_cs(data[s], op[t].deposit)
       IN /\ data' = [data EXCEPT ![s] = r.data]
          /\ lock' = [lock EXCEPT ![s].writer = {}]
          /\ res' = [res EXCEPT ![t] = r.res]
          /\ pc' = [pc EXCEPT ![t] = IF r.res.tag = "Ok" THEN "persist_rlock" ELSE "done"]
    /\ UNCHANGED <<cfg, sw, env, up, boot, key, file, tmp, op, buf>>

\* The block of deduct_credits that runs under the write guard.
deduct_credits(t) ==
    /\ pc[t] = "deduct_cs"
    /\ LET s == op[t].store
           r == deduct_credits_cs(data[s], op[t].user_id, op[t].credits, op[t].usage)
       IN /\ data' = [data EXCEPT ![s] = r.data]
          /\ lock' = [lock EXCEPT ![s].writer = {}]
          /\ res' = [res EXCEPT ![t] = r.res]
          /\ pc' = [pc EXCEPT ![t] = IF r.res.tag = "Ok" THEN "persist_rlock" ELSE "done"]
    /\ UNCHANGED <<cfg, sw, env, up, boot, key, file, tmp, op, buf>>

\* derive_key: the cached key if there is one, else the key the dstack
\* socket gives on this start: the bytes of the DeriveKey endpoint ("k1")
\* when it answers, else the SHA-256 of compose_hash, app_id and the
\* derivation path of AppInfo ("k2"); it fails when the socket cannot be
\* reached at all.  e.tee_key is the one of the two this start gets.
derive_key(cached, e) ==
    IF cached # "none" THEN [ok |-> TRUE, key |-> cached]
    ELSE IF "dstack" \in e.down THEN [ok |-> FALSE, key |-> "none"]
    ELSE [ok |-> TRUE, key |-> e.tee_key]

\* persist: derive_key, fresh nonce, self.data.read().await, serialize, encrypt.  The
\* read guard lives until persist returns.
persist_encrypt(t) ==
    /\ pc[t] = "persist_rlock"
    /\ LET s == op[t].store
           k == derive_key(key[s], env)
       IN IF ~k.ok
          THEN /\ res' = [res EXCEPT ![t] = Err("Encryption")]
               /\ pc' = [pc EXCEPT ![t] = "done"]
               /\ UNCHANGED <<key, lock, buf>>
          ELSE /\ lock[s].writer = {}
               /\ key' = [key EXCEPT ![s] = k.key]
               /\ IF "cipher" \in env.down
                  THEN /\ res' = [res EXCEPT ![t] = Err("Encryption")]
                       /\ pc' = [pc EXCEPT ![t] = "done"]
                       /\ UNCHANGED <<lock, buf>>
                  ELSE /\ lock' = [lock EXCEPT ![s].readers = @ \cup {t}]
                       /\ \E n \in cfg.nonces :
                            buf' = [buf EXCEPT ![t] = encrypt(k.key, n, to_vec(data[s]))]
                       /\ pc' = [pc EXCEPT ![t] = "persist_write"]
                       /\ res' = res
    /\ UNCHANGED <<cfg, sw, env, data, up, boot, file, tmp, op>>

\* persist: fs::create_dir_all(parent), fs::write(&temp_path, &encrypted)
persist_write(t) ==
    /\ pc[t] = "persist_write"
    /\ IF "disk" \in env.down
       THEN /\ res' = [res EXCEPT ![t] = Err("Storage")]
            /\ lock' = [lock EXCEPT ![op[t].store].readers = @ \ {t}]
            /\ buf' = [buf EXCEPT ![t] = NoFile]
            /\ pc' = [pc EXCEPT ![t] = "done"]
            /\ tmp' = tmp
       ELSE /\ tmp' = buf[t]
            /\ pc' = [pc EXCEPT ![t] = "persist_rename"]
            /\ UNCHANGED <<lock, res, buf>>
    /\ UNCHANGED <<cfg, sw, env, data, up, boot, key, file, op>>

\* persist: fs::rename(&temp_path, &self.storage_path), then the call
\* returns; the rename fails when the temporary file is gone.
\* persist_rename where the caller drops the error of the rename.
persist_rename_swallow(t) ==
    /\ pc[t] = "persist_rename"
    /\ IF tmp.exists /\ "disk" \notin env.down
       THEN /\ file' = tmp
            /\ tmp' = NoFile
       ELSE UNCHANGED <<file, tmp>>
    /\ res' = res
    /\ lock' = [lock EXCEPT ![op[t].store].readers = @ \ {t}]
    /\ buf' = [buf EXCEPT ![t] = NoFile]
    /\ pc' = [pc EXCEPT ![t] = "done"]
    /\ UNCHANGED <<cfg, sw, env, data, up, boot, key, op>>

\* persist: fs::rename(&temp_path, &self.storage_path), then the call
\* returns; the rename fails when the temporary file is gone.
persist_rename(t) ==
    /\ pc[t] = "persist_rename"
    /\ IF tmp.exists /\ "disk" \notin env.down
       THEN /\ file' = tmp
            /\ tmp' = NoFile
            /\ res' = res
       ELSE /\ res' = [res EXCEPT ![t] = Err("Storage")]
            /\ UNCHANGED <<file, tmp>>
    /\ lock' = [lock EXCEPT ![op[t].store].readers = @ \ {t}]
    /\ buf' = [buf EXCEPT ![t] = NoFile]
    /\ pc' = [pc EXCEPT ![t] = "done"]
    /\ UNCHANGED <<cfg, sw, env, data, up, boot, key, op>>

\* The process stops and the deployment starts again: calls in flight are
\* lost, every instance is constructed anew and loads the file with the
\* key k that this start derives (DeriveKey reachable or not).
Restart(k) ==
    /\ \A t \in cfg.tasks : pc[t] # "aborted"
    /\ env' = [env EXCEPT !.tee_key = k]
    /\ LET d == derive_key("none", env')
           l == IF ~file.exists THEN load(file, "none")
                ELSE IF ~d.ok
                THEN [status |-> "Encryption", ok |-> FALSE, data |-> CreditStoreData_default]
                ELSE load(file, d.key)
       IN /\ data' = [s \in Stores |-> IF s \in cfg.stores THEN l.data ELSE data[s]]
          /\ up' = [s \in Stores |-> s \in cfg.stores /\ l.ok]
          /\ boot' = [s \in Stores |-> IF s \in cfg.stores THEN l.status ELSE boot[s]]
          /\ key' = [s \in Stores |-> IF file.exists THEN d.key ELSE "none"]
    /\ lock' = [s \in Stores |-> Free]
    /\ pc' = [t \in AllTasks |-> IF Finished(t) THEN pc[t] ELSE "aborted"]
    /\ buf' = [t \in AllTasks |-> NoFile]
    /\ UNCHANGED <<cfg, sw, file, tmp, op, res>>

\* A component starts failing, or works again.
Fault(c) ==
    /\ c \notin env.down
    /\ env' = [env EXCEPT !.down = @ \cup {c}]
    /\ UNCHANGED <<cfg, sw, data, up, boot, key, lock, file, tmp, pc, op, res, buf>>

Repair(c) ==
    /\ c \in env.down
    /\ env' = [env EXCEPT !.down = @ \ {c}]
    /\ UNCHANGED <<cfg, sw, data, up, boot, key, lock, file, tmp, pc, op, res, buf>>

\* The Base chain grows by a block: eth_blockNumber answers one more.
NewBlock ==
    /\ env.block < MaxBlock
    /\ env' = [env EXCEPT !.block = @ + 1]
    /\ UNCHANGED <<cfg, sw, data, up, boot, key, lock, file, tmp, pc, op, res, buf>>

\* The storage medium damages the file: it is cut to c bytes or a byte
\* of it changes.
Damage ==
    /\ file.exists /\ file.len = EncryptedLen /\ ~file.flipped
    /\ \A t \in AllTasks : Finished(t)
    /\ \/ \E c \in {0, NONCE_SIZE - 1, NONCE_SIZE, NONCE_SIZE + 1} :
            file' = [file EXCEPT !.len = c]
       \/ file' = [file EXCEPT !.flipped = TRUE]
    /\ UNCHANGED <<cfg, sw, env, data, up, boot, key, lock, tmp, pc, op, res, buf>>

\* FundSweeper::new with the operator addresses and the sweep
\* configuration of the deployment.
FundSweeper_new ==
    /\ sw.pc = "none"
    /\ \E operator_addresses \in [{"Base", "Near", "Solana"} -> {{}, {"operator"}}],
          reserve \in {1, U64_MAX} :
         sw' = [sw EXCEPT !.pc = "idle",
                          !.operator_addresses = operator_addresses,
                          !.config = [interval |-> 2, min_amount_usdc |-> 2,
                                      reserve_for_gas |-> reserve]]
    /\ UNCHANGED <<cfg, env, data, up, boot, key, lock, file, tmp, pc, op, res, buf>>

\* sweep_once_begin that starts the next cycle at once, without the sleep.
sweep_once_begin_no_sleep ==
    /\ sw.pc = "idle"
    /\ sw.cycles < MaxCycles
    /\ sw' = [sw EXCEPT !.pc = "sweeping", !.i = 1, !.calls = <<>>, !.records = <<>>]
    /\ UNCHANGED <<cfg, env, data, up, boot, key, lock, file, tmp, pc, op, res, buf>>

\* run: tokio::time::sleep(self.config.interval) has elapsed, sweep_once
\* starts with no records.
sweep_once_begin ==
    /\ sw.pc = "idle"
    /\ sw.cycles < MaxCycles
    /\ sw' = [sw EXCEPT !.pc = "sweeping", !.i = 1, !.calls = <<>>, !.records = <<>>,
                        !.now = @ + sw.config.interval]
    /\ UNCHANGED <<cfg, env, data, up, boot, key, lock, file, tmp, pc, op, res, buf>>

\* sweep_once_chain where an error of sweep_chain ends the loop, as a `?`
\* on the call would.
sweep_once_chain_abort ==
    /\ sw.pc = "sweeping"
    /\ sw.i <= Len(SweepChains)
    /\ LET chain == SweepChains[sw.i]
       IN \E balance \in BalanceAnswers, tx_result \in TransferAnswers(chain) :
            LET r == sweep_chain(chain, sw.operator_addresses, sw.config, balance, tx_result, sw.now)
            IN sw' = [sw EXCEPT !.i = IF r.result = "Err" THEN Len(SweepChains) + 1 ELSE @ + 1,
                                !.calls = @ \o r.calls,
                                !.records = @ \o r.records,
                                !.now = @ + 1]
    /\ UNCHANGED <<cfg, env, data, up, boot, key, lock, file, tmp, pc, op, res, buf>>

\* sweep_once: one turn of the loop over the facilitators: sweep_chain,
\* then the match on its result (a record is pushed, None and Err are
\* only logged).
sweep_once_chain ==
    /\ sw.pc = "sweeping"
    /\ sw.i <= Len(SweepChains)
    /\ LET chain == SweepChains[sw.i]
       IN \E balance \in BalanceAnswers, tx_result \in TransferAnswers(chain) :
            LET r == sweep_chain(chain, sw.operator_addresses, sw.config, balance, tx_result, sw.now)
            IN sw' = [sw EXCEPT !.i = @ + 1,
                                !.calls = @ \o r.calls,
                                !.records = @ \o r.records,
                                !.now = @ + 1]
    /\ UNCHANGED <<cfg, env, data, up, boot, key, lock, file, tmp, pc, op, res, buf>>

\* sweep_once: after the loop the records go into the history and are
\* returned.
sweep_once_end ==
    /\ sw.pc = "sweeping"
    /\ sw.i > Len(SweepChains)
    /\ sw' = [sw EXCEPT !.pc = "idle",
                        !.sweep_history = extend_history(@, sw.records),
                        !.cycles = @ + 1]
    /\ UNCHANGED <<cfg, env, data, up, boot, key, lock, file, tmp, pc, op, res, buf>>

\* The pricing configurations and inputs the callers may hold.
PricingConfigs ==
    {PricingConfig(p, c, m, r) :
        p \in 0..U64_MAX, c \in 0..U64_MAX, m \in {0, 1, U64_MAX},
        r \in {1, MILLION, U64_MAX}}
\* message.text.len() is a usize, wider than the u32 of the token counts.
MaxChars == CHARS_PER_TOKEN * (U32_MAX + 1) + CHARS_PER_TOKEN - 1

\* What the caller of an unchecked computation gets: the value, or, where
\* the computation overflowed, either the wrapped value (release build)
\* or a panic (debug build).
Outcomes(r) == IF r.overflow THEN {Value(r.value), Err("Panic")} ELSE {Value(r.value)}

\* chat.rs: calculate_credits(&token_usage, &self.pricing_config)
Calculate(t) ==
    /\ CanStart(t)
    /\ \E prompt \in 0..U32_MAX, completion \in 0..U32_MAX, config \in PricingConfigs :
         /\ op' = [op EXCEPT ![t] =
                      [kind |-> "calculate_credits",
                       tokens |-> TokenUsage_new(prompt, completion),
                       pricing |-> config] @@ NoOp]
         /\ \E r \in Outcomes(calculate_credits(TokenUsage_new(prompt, completion), config)) :
              res' = [res EXCEPT ![t] = r]
    /\ pc' = [pc EXCEPT ![t] = "done"]
    /\ UNCHANGED <<cfg, sw, env, data, up, boot, key, lock, file, tmp, buf>>

\* chat.rs: estimate_credits(message.text.len(), &self.pricing_config)
Estimate(t) ==
    /\ CanStart(t)
    /\ \E message_chars \in 0..MaxChars, config \in PricingConfigs :
         /\ op' = [op EXCEPT ![t] =
                      [kind |-> "estimate_credits", message_chars |-> message_chars,
                       pricing |-> config] @@ NoOp]
         /\ \E r \in Outcomes(estimate_credits(message_chars, config)) :
              res' = [res EXCEPT ![t] = r]
    /\ pc' = [pc EXCEPT ![t] = "done"]
    /\ UNCHANGED <<cfg, sw, env, data, up, boot, key, lock, file, tmp, buf>>

\* handlers.rs: state.pricing.usdc_to_credits(verified_amount), on the
\* PricingCalculator built from the configuration.
Convert(t) ==
    /\ CanStart(t)
    /\ \E usdc_micro \in 0..U64_MAX, config \in PricingConfigs :
         /\ op' = [op EXCEPT ![t] =
                      [kind |-> "usdc_to_credits", usdc_micro |-> usdc_micro,
                       pricing |-> config] @@ NoOp]
         /\ res' = [res EXCEPT ![t] = Value(usdc_to_credits(usdc_micro))]
    /\ pc' = [pc EXCEPT ![t] = "done"]
    /\ UNCHANGED <<cfg, sw, env, data, up, boot, key, lock, file, tmp, buf>>

\* ChatHandler::execute with payments enabled: the pre-flight check
\* (estimate_credits of the message length, has_credits), then the
\* completion, calculate_credits of the tokens it used and the call of
\* deduct_credits.  The response is returned when deduct_credits has
\* returned, whatever it returned; the refusal of the pre-flight check
\* and a panic of the unchecked arithmetic return no response.
execute(t) ==
    /\ CanStart(t)
    /\ up[ChatStore]
    /\ lock[ChatStore].writer = {}
    /\ \E u \in cfg.users, message_chars \in {0, CHARS_PER_TOKEN * U32_MAX},
          prompt \in 0..U32_MAX, completion \in 0..U32_MAX,
          minimum \in {0, 1} :
         LET config == PricingConfig(MILLION, MILLION, minimum, MILLION)
             paid == [kind |-> "chat", store |-> ChatStore, user_id |-> u] @@ NoOp
         IN \E estimated_credits \in Outcomes(estimate_credits(message_chars, config)),
               credits_used \in Outcomes(calculate_credits(
                                   TokenUsage_new(prompt, completion), config)) :
              IF estimated_credits.tag = "Panic"
              THEN /\ op' = [op EXCEPT ![t] = paid]
                   /\ res' = [res EXCEPT ![t] = estimated_credits]
                   /\ pc' = [pc EXCEPT ![t] = "done"]
              ELSE IF ~has_credits(data[ChatStore], u, estimated_credits.value)
              THEN /\ op' = [op EXCEPT ![t] = paid]
                   /\ res' = [res EXCEPT ![t] = Err("Insufficient credits")]
                   /\ pc' = [pc EXCEPT ![t] = "done"]
              ELSE IF credits_used.tag = "Panic"
              THEN /\ op' = [op EXCEPT ![t] = paid]
                   /\ res' = [res EXCEPT ![t] = credits_used]
                   /\ pc' = [pc EXCEPT ![t] = "done"]
              ELSE /\ op' = [op EXCEPT ![t] =
                                [paid EXCEPT !.credits = credits_used.value,
                                             !.usage = UsageRecord_new(u, u, prompt, completion,
                                                                      credits_used.value)]]
                   /\ res' = res
                   /\ pc' = [pc EXCEPT ![t] = "deduct_wlock"]
    /\ UNCHANGED <<cfg, sw, env, data, up, boot, key, lock, file, tmp, buf>>

\* ------------------------------------------------------------------------
\* Specifications
\* ------------------------------------------------------------------------
\* One ledger, calls of add_credits, deduct_credits and POST /v1/deposit
\* in flight at the same time, all for one identity.
Spec ==
    /\ InitWith(Scenario(FALSE, 1..MaxTasks, {"server"}, {"u1"},
                             {"0xab", "0xcd"}, {"Base"}, {1, 2}, {1}))
    /\ [][
            \E t \in AllTasks :
                \/ StartAdd(t)
                \/ StartDeduct(t)
                \/ StartDeposit(t)
                \/ process_deposit_check(t)
                \/ process_deposit_verify(t)
                \/ AcquireWrite(t)
                \/ add_credits(t)
                \/ deduct_credits(t)
                \/ persist_encrypt(t)
                \/ persist_write(t)
                \/ persist_rename(t)
       ]_vars

\* One ledger, add_credits and deduct_credits called one after another.
SpecSeq ==
    /\ InitWith(Scenario(TRUE, 1..MaxCalls, {"server"}, Users,
                                {"0xab", "0xcd"}, Chains, Amounts, {1}))
    /\ [][
            \E t \in AllTasks :
                \/ StartAdd(t)
                \/ StartDeduct(t)
                \/ AcquireWrite(t)
                \/ add_credits(t)
                \/ deduct_credits(t)
                \/ persist_encrypt(t)
                \/ persist_write(t)
                \/ persist_rename(t)
       ]_vars

\* One ledger, POST /v1/deposit requests handled one after another.
SpecHttp ==
    /\ InitWith(Scenario(TRUE, 1..MaxCalls, {"server"}, Users,
                                 TxHashes, Chains, {1, 2}, {1}))
    /\ [][
            \E t \in AllTasks :
                \/ StartDeposit(t)
                \/ process_deposit_check(t)
                \/ process_deposit_verify(t)
                \/ AcquireWrite(t)
                \/ add_credits(t)
                \/ persist_encrypt(t)
                \/ persist_write(t)
                \/ persist_rename(t)
       ]_vars

\* One ledger, POST /v1/deposit requests for transfers on Base while the
\* chain grows.
SpecConfirm ==
    /\ InitWith(Scenario(TRUE, 1..MaxCalls, {"server"}, {"u1"},
                                    {"0xab", "0xcd"}, {"Base"}, {1, 2}, {1}))
    /\ [][
            \/ \E t \in AllTasks :
                \/ StartDeposit(t)
                \/ process_deposit_check(t)
                \/ process_deposit_verify(t)
                \/ AcquireWrite(t)
                \/ add_credits(t)
                \/ persist_encrypt(t)
                \/ persist_write(t)
                \/ persist_rename(t)
            \/ NewBlock
       ]_vars

\* One ledger, add_credits calls and POST /v1/deposit requests that all
\* carry the same transaction id, in flight at the same time.
SpecSameTx ==
    /\ InitWith(Scenario(FALSE, 1..MaxTasks, {"server"}, Users,
                                   {"0xab"}, {"Base"}, {1, 2}, {1}))
    /\ [][
            \E t \in AllTasks :
                \/ StartAdd(t)
                \/ StartDeposit(t)
                \/ process_deposit_check(t)
                \/ process_deposit_verify(t)
                \/ AcquireWrite(t)
                \/ add_credits(t)
                \/ persist_encrypt(t)
                \/ persist_write(t)
                \/ persist_rename(t)
       ]_vars

\* One ledger, calls one after another, and restarts of the process.
SpecRestart ==
    /\ InitWith(Scenario(TRUE, 1..MaxCalls, {"server"}, {"u1"},
                                    {"0xab", "0xcd"}, {"Base"}, Amounts, Nonces))
    /\ [][
            \/ \E t \in AllTasks :
                \/ StartAdd(t)
                \/ StartDeduct(t)
                \/ AcquireWrite(t)
                \/ add_credits(t)
                \/ deduct_credits(t)
                \/ persist_encrypt(t)
                \/ persist_write(t)
                \/ persist_rename(t)
            \/ \E k \in Keys : Restart(k)
       ]_vars

\* The same, on a storage medium that can damage the file.
SpecDamage ==
    /\ InitWith(Scenario(TRUE, 1..MaxCalls, {"server"}, {"u1"},
                                   {"0xab", "0xcd"}, {"Base"}, {1}, {1}))
    /\ [][
            \/ \E t \in AllTasks :
                \/ StartAdd(t)
                \/ StartDeduct(t)
                \/ AcquireWrite(t)
                \/ add_credits(t)
                \/ deduct_credits(t)
                \/ persist_encrypt(t)
                \/ persist_write(t)
                \/ persist_rename(t)
            \/ \E k \in Keys : Restart(k)
            \/ Damage
       ]_vars

\* The deployment signal-bot builds: main.rs constructs one CreditStore for
\* the chat path and spawn_payment_server constructs another one for the
\* HTTP server, both on config.payments.storage_path.
SpecDeploy ==
    /\ InitWith(Scenario(FALSE, 1..MaxTasks, {"server", "bot"}, {"u1"},
                                   {"0xab", "0xcd"}, {"Base"}, {1, 2}, {1}))
    /\ [][
            \/ \E t \in AllTasks :
                \/ StartDeposit(t)
                \/ StartDeduct(t)
                \/ process_deposit_check(t)
                \/ process_deposit_verify(t)
                \/ AcquireWrite(t)
                \/ add_credits(t)
                \/ deduct_credits(t)
                \/ persist_encrypt(t)
                \/ persist_write(t)
                \/ persist_rename(t)
            \/ \E k \in Keys : Restart(k)
       ]_vars

\* One ledger, calls one after another, restarts, and components that
\* fail and recover while the calls run.
SpecFault ==
    /\ InitWith(Scenario(TRUE, 1..MaxCalls, {"server"}, {"u1"},
                                  {"0xab"}, {"Base"}, {1}, {1}))
    /\ [][
            \/ \E t \in AllTasks :
                \/ StartAdd(t)
                \/ StartDeduct(t)
                \/ AcquireWrite(t)
                \/ add_credits(t)
                \/ deduct_credits(t)
                \/ persist_encrypt(t)
                \/ persist_write(t)
                \/ persist_rename(t)
            \/ \E k \in Keys : Restart(k)
            \/ \E c \in Components : Fault(c)
            \/ \E c \in Components : Repair(c)
       ]_vars

\* One ledger, read-only calls in flight together with add_credits and
\* deduct_credits.
SpecRead ==
    /\ InitWith(Scenario(FALSE, 1..MaxTasks, {"server"}, Users,
                                 {"0xab", "0xcd"}, {"Base"}, {0, 1}, {1}))
    /\ [][
            \E t \in AllTasks :
                \/ StartAdd(t)
                \/ StartDeduct(t)
                \/ Read(t)
                \/ AcquireWrite(t)
                \/ add_credits(t)
                \/ deduct_credits(t)
                \/ persist_encrypt(t)
                \/ persist_write(t)
                \/ persist_rename(t)
       ]_vars

\* One ledger, starting empty: POST /v1/deposit requests and
\* deduct_credits calls one after another.
SpecEndToEnd ==
    /\ InitWith(Scenario(TRUE, 1..MaxCalls, {"server"}, Users,
                                     {"0xab", "0xcd"}, {"Base"}, {0, 1, 2}, {1}))
    /\ [][
            \E t \in AllTasks :
                \/ StartDeposit(t)
                \/ StartDeduct(t)
                \/ process_deposit_check(t)
                \/ process_deposit_verify(t)
                \/ AcquireWrite(t)
                \/ add_credits(t)
                \/ deduct_credits(t)
                \/ persist_encrypt(t)
                \/ persist_write(t)
                \/ persist_rename(t)
       ]_vars

\* One ledger, POST /v1/deposit requests in flight at the same time, on
\* the enabled and on a disabled chain.
SpecDeposit ==
    /\ InitWith(Scenario(FALSE, 1..MaxTasks, {"server"}, {"u1"},
                                    {"0xab", "0xcd"}, Chains, {1, 2}, {1}))
    /\ [][
            \E t \in AllTasks :
                \/ StartDeposit(t)
                \/ process_deposit_check(t)
                \/ process_deposit_verify(t)
                \/ AcquireWrite(t)
                \/ add_credits(t)
                \/ persist_encrypt(t)
                \/ persist_write(t)
                \/ persist_rename(t)
       ]_vars

\* Callers asking the facilitators to verify payments, one after another.
SpecVerify ==
    /\ InitWith(Scenario(TRUE, 1..MaxTasks, {"server"}, {"u1"},
                                   {"0xab"}, AllChains, {1, 2}, {1}))
    /\ [][
            \E t \in AllTasks : Verify(t)
       ]_vars

\* The NEAR facilitator alone, asked about deposits of either identity.
SpecMemo ==
    /\ InitWith(Scenario(TRUE, {1, 2}, {"server"}, Users,
                                 {"0xab"}, {"Near"}, {1}, {1}))
    /\ [][
            \E t \in AllTasks : Verify(t)
       ]_vars

\* The fund sweeper and the facilitators it polls.
SpecSweep ==
    /\ InitWith(Scenario(TRUE, {}, {"server"}, {"u1"},
                                  {"0xab"}, AllChains, {1}, {1}))
    /\ [][
            \/ FundSweeper_new
            \/ sweep_once_begin
            \/ sweep_once_chain
            \/ sweep_once_end
       ]_vars

\* The sweeper task spawn_sweeper starts: the runtime schedules it, every
\* sleep elapses and every call to a node returns within the timeout of
\* the HTTP client.
SpecRun ==
    /\ InitWith(Scenario(TRUE, {}, {"server"}, {"u1"},
                                {"0xab"}, AllChains, {1}, {1}))
    /\ [][
            \/ FundSweeper_new
            \/ sweep_once_begin
            \/ sweep_once_chain
            \/ sweep_once_end
       ]_vars
    /\ WF_vars(sweep_once_begin)
    /\ WF_vars(sweep_once_chain)
    /\ WF_vars(sweep_once_end)

\* The ledger as the deployment drives it: POST /v1/deposit requests and
\* deductions of the chat path in flight at the same time on one
\* instance, and restarts of the process.
SpecLedger ==
    /\ InitWith(Scenario(FALSE, 1..MaxTasks, {"server"}, Users,
                                   {"0xab", "0xcd"}, {"Base"}, {1, 2}, {1}))
    /\ [][
            \/ \E t \in AllTasks :
                \/ StartDeposit(t)
                \/ StartDeduct(t)
                \/ process_deposit_check(t)
                \/ process_deposit_verify(t)
                \/ AcquireWrite(t)
                \/ add_credits(t)
                \/ deduct_credits(t)
                \/ persist_encrypt(t)
                \/ persist_write(t)
                \/ persist_rename(t)
            \/ \E k \in Keys : Restart(k)
       ]_vars

\* One caller of the pricing functions.
SpecPricing ==
    /\ InitWith(Scenario(TRUE, {1}, {"server"}, {"u1"},
                                    {"0xab"}, {"Base"}, {1}, {1}))
    /\ [][
            \E t \in AllTasks :
                \/ Calculate(t)
                \/ Estimate(t)
                \/ Convert(t)
       ]_vars

\* The record sweep number k of a sweeper left: NEAR and Solana are swept
\* in every cycle, each chain takes one tick of the clock and the sleep
\* between two cycles the two ticks of the interval.
SweptBefore(k) ==
    SweepRecord(IF k % 2 = 1 THEN "Near" ELSE "Solana", "operator",
                U64_MAX - 1, TRUE, 5 * ((k - 1) \div 2) + 4 + ((k - 1) % 2))

\* A fund sweeper that has been running for some time: its history holds
\* the records of the cycles it went through and is about to fill up.
SpecHistory ==
    /\ /\ InitStore(Scenario(TRUE, {}, {"server"}, {"u1"}, {"0xab"}, AllChains, {1}, {1}))
       /\ \E m \in ((SWEEP_HISTORY_MAX \div 2) - 2)..(SWEEP_HISTORY_MAX \div 2),
             base \in {{}, {"operator"}} :
            sw = [NoSweeper EXCEPT
                    !.pc = "idle",
                    !.operator_addresses =
                        [c \in AllChains |-> IF c = "Base" THEN base ELSE {"operator"}],
                    !.config = [interval |-> 2, min_amount_usdc |-> 2, reserve_for_gas |-> 1],
                    !.sweep_history = [k \in 1..(2 * m) |-> SweptBefore(k)],
                    !.now = 5 * m + 1]
    /\ [][
            \/ sweep_once_begin
            \/ sweep_once_chain
            \/ sweep_once_end
       ]_vars

\* The chat path with payments enabled: chat requests of one identity in
\* flight at the same time, on a ledger that deposits fund.
SpecChat ==
    /\ InitWith(Scenario(FALSE, 1..MaxCalls, {"server"}, {"u1"},
                                 {"0xab"}, {"Base"}, {1}, {1}))
    /\ [][
            \E t \in AllTasks :
                \/ StartAdd(t)
                \/ execute(t)
                \/ AcquireWrite(t)
                \/ add_credits(t)
                \/ deduct_credits(t)
                \/ persist_encrypt(t)
                \/ persist_write(t)
                \/ persist_rename(t)
       ]_vars

\* ------------------------------------------------------------------------
\* Helpers for the properties
\* ------------------------------------------------------------------------
RECURSIVE SumOver(_, _)
\* Sum of f[x] over the finite set S.
SumOver(f, S) ==
    IF S = {} THEN 0
    ELSE LET x == CHOOSE y \in S : TRUE IN f[x] + SumOver(f, S \ {x})

Returned(t) == pc[t] = "done"
ReturnedOk(t) == pc[t] = "done" /\ res[t].tag = "Ok"
IsAdd(t) == op[t].kind \in {"add", "http"}
\* The step in which task t runs its block under the write guard.
AddStep(t) == pc[t] = "add_cs" /\ pc'[t] # "add_cs"
DeductStep(t) == pc[t] = "deduct_cs" /\ pc'[t] # "deduct_cs"

\* ------------------------------------------------------------------------
\* C1: a call of add_credits whose deposit carries a transaction id that an
\* earlier successful add_credits recorded returns DuplicateTransaction and
\* leaves balances, deposit list and processed-id set as they were,
\* whatever identity, chain or amount the repeated deposit names.
\* ------------------------------------------------------------------------
C1_ReplayRejected ==
    [][\A t \in AllTasks :
          (/\ AddStep(t)
           /\ \E u \in AllTasks :
                /\ u # t /\ ReturnedOk(u) /\ IsAdd(u)
                /\ op[u].store = op[t].store
                /\ op[u].deposit.tx_hash = op[t].deposit.tx_hash)
          => (/\ res'[t].tag = "DuplicateTransaction"
              /\ pc'[t] = "done"
              /\ data' = data)]_vars

\* A replay naming another identity, chain and amount has been rejected.
C1_Witness ==
    \E t, u \in AllTasks :
        /\ u # t /\ ReturnedOk(u) /\ IsAdd(u)
        /\ Returned(t) /\ res[t].tag = "DuplicateTransaction"
        /\ op[u].deposit.tx_hash = op[t].deposit.tx_hash
        /\ op[u].deposit.user_id # op[t].deposit.user_id
        /\ op[u].deposit.chain # op[t].deposit.chain
        /\ op[u].deposit.credits_granted # op[t].deposit.credits_granted

\* ------------------------------------------------------------------------
\* C3 (as claimed): every stored balance satisfies
\* credits_remaining = total_deposited - total_consumed.
\* ------------------------------------------------------------------------
C3_BalanceEquation ==
    \A s \in cfg.stores : \A u \in DOMAIN data[s].balances :
        data[s].balances[u].credits_remaining =
            data[s].balances[u].total_deposited - data[s].balances[u].total_consumed

\* ------------------------------------------------------------------------
\* C4: deduct_credits(id, amount, usage) with amount greater than the
\* identity's credits_remaining (0 for an unseen identity) returns
\* InsufficientCredits with required = amount and available = the current
\* credits_remaining, and leaves the aggregate unchanged.
\* ------------------------------------------------------------------------
C4_Insufficient ==
    [][\A t \in AllTasks :
          (/\ DeductStep(t)
           /\ op[t].credits >
                get_balance(data[op[t].store], op[t].user_id).credits_remaining)
          => (/\ res'[t] = InsufficientCredits(op[t].credits,
                    get_balance(data[op[t].store], op[t].user_id).credits_remaining)
              /\ pc'[t] = "done"
              /\ data' = data)]_vars

\* An insufficient deduction was refused for an identity that holds credits.
C4_Witness ==
    \E t \in AllTasks :
        /\ Returned(t) /\ op[t].kind = "deduct"
        /\ res[t].tag = "InsufficientCredits"
        /\ res[t].available > 0
        /\ res[t].required > res[t].available

\* ------------------------------------------------------------------------
\* C2 (as claimed): one on-chain transaction increases credit balances at
\* most once, also when requests spell its id differently: no two deposit
\* records name the same on-chain transaction.
\* ------------------------------------------------------------------------
C2_CreditedOncePerChainTx ==
    \A s \in cfg.stores : \A i, j \in DOMAIN data[s].deposits :
        (/\ data[s].deposits[i].chain = data[s].deposits[j].chain
         /\ Canon(data[s].deposits[i].tx_hash) = Canon(data[s].deposits[j].tx_hash))
        => i = j

\* ------------------------------------------------------------------------
\* C5: when several add_credits calls or POST /v1/deposit requests carrying
\* the same transaction id run concurrently, exactly one succeeds and
\* credits the balance once; all others return the replay error.
\* ------------------------------------------------------------------------
TxOf(t) == IF op[t].kind = "http" THEN op[t].request.tx_hash ELSE op[t].deposit.tx_hash

\* The calls carrying h that have come to a decision on the replay check.
Decided(s, h) ==
    {t \in AllTasks :
        /\ IsAdd(t) /\ op[t].store = s /\ TxOf(t) = h
        /\ pc[t] \in {"persist_rlock", "persist_write", "persist_rename", "done"}
        /\ res[t].tag \notin {"CHAIN_DISABLED", "VERIFICATION_FAILED"}}

C5_ExactlyOneSucceeds ==
    \A s \in cfg.stores : \A h \in TxHashes :
        Decided(s, h) # {} =>
            /\ Cardinality({t \in Decided(s, h) : res[t].tag = "Ok"}) = 1
            /\ \A t \in Decided(s, h) :
                 res[t].tag \in {"Ok", "DuplicateTransaction", "DUPLICATE_TX"}
            /\ \E t \in Decided(s, h) :
                 /\ res[t].tag = "Ok"
                 /\ data[s].deposits = <<op[t].deposit>>
                 /\ \A u \in DOMAIN data[s].balances :
                      data[s].balances[u].total_deposited =
                         IF u = op[t].deposit.user_id
                         THEN op[t].deposit.credits_granted ELSE 0

\* Two requests raced past the handler's pre-check: one was credited and
\* returned, the other was refused by add_credits itself.
C5_Witness ==
    \E t, u \in AllTasks :
        /\ t # u /\ TxOf(t) = TxOf(u)
        /\ ReturnedOk(t)
        /\ Returned(u) /\ op[u].kind = "http"
        /\ res[u].tag = "DuplicateTransaction"

\* ------------------------------------------------------------------------
\* C6 (as claimed): once concurrent add_credits and deduct_credits calls on
\* one identity have all returned, credits_remaining = sum of the credits
\* granted by the adds that returned success - sum of the debits that
\* returned success (stated for totals below the saturation point).
\* ------------------------------------------------------------------------
CreditsOf == [t \in AllTasks |-> op[t].deposit.credits_granted]
DebitOf == [t \in AllTasks |-> op[t].credits]

C6_SerialBalance ==
    (/\ \A t \in cfg.tasks : Returned(t)
     /\ SumOver(CreditsOf, {t \in AllTasks : IsAdd(t)}) <= U64_MAX)
    => \A u \in cfg.users :
         get_balance(data["server"], u).credits_remaining =
             SumOver(CreditsOf, {t \in AllTasks :
                        ReturnedOk(t) /\ IsAdd(t) /\ op[t].deposit.user_id = u})
             - SumOver(DebitOf, {t \in AllTasks :
                        ReturnedOk(t) /\ op[t].kind = "deduct" /\ op[t].user_id = u})

\* ------------------------------------------------------------------------
\* C7 (as claimed): no other mutation of the aggregate occurs between an
\* operation's in-memory change and the end of its persist.
\* ------------------------------------------------------------------------
C7_NoMutationBeforePersistEnds ==
    [][\A t \in AllTasks :
          pc[t] \in {"persist_rlock", "persist_write", "persist_rename"}
          => data'[op[t].store] = data[op[t].store]]_vars

\* ------------------------------------------------------------------------
\* C8 (as claimed): the chat path and the HTTP server work on one ledger:
\* when no call is in flight, the balance the chat path reads for an
\* identity is the balance the HTTP server holds for it.
\* ------------------------------------------------------------------------
C8_OneSharedLedger ==
    (\A t \in AllTasks : Finished(t))
    => \A u \in Users :
         get_balance(data[ChatStore], u).credits_remaining =
             get_balance(data["server"], u).credits_remaining

\* ------------------------------------------------------------------------
\* C9: after a sequence of calls that ends with a successful add_credits
\* or deduct_credits, loading the file with the store's key yields the
\* in-memory aggregate, and loading it with any other key fails with an
\* Encryption error.
\* ------------------------------------------------------------------------
IsLatest(t) == \A u \in AllTasks : u > t => pc[u] = "idle"

C9_RoundTrip ==
    \A t \in AllTasks :
        (ReturnedOk(t) /\ IsLatest(t) /\ up[op[t].store])
        => /\ load(file, key[op[t].store]) =
                [status |-> "Loaded", ok |-> TRUE, data |-> data[op[t].store]]
           /\ \A k \in Keys \ {key[op[t].store]} :
                load(file, k).status = "Encryption" /\ ~load(file, k).ok

\* A restart has loaded an aggregate holding a deposit and a usage record.
C9_Witness ==
    \E t \in AllTasks :
        /\ ReturnedOk(t) /\ IsLatest(t)
        /\ up["server"] /\ boot["server"] = "Loaded"
        /\ data["server"].deposits # <<>>
        /\ data["server"].usage_log # <<>>
        /\ Cardinality(data["server"].processed_tx_hashes) = 2

\* ------------------------------------------------------------------------
\* C10 (as claimed): when the file exists and is not a valid
\* nonce-plus-ciphertext under the key, construction fails.
\* ------------------------------------------------------------------------
C10_InvalidFileFailsConstruction ==
    [][\A k \in Keys :
          (Restart(k) /\ file.exists /\ ~decrypt_ok(k, file))
          => \A s \in cfg.stores : ~up'[s]]_vars

\* ------------------------------------------------------------------------
\* C11: if deriving the key, encrypting or writing the file fails during
\* add_credits or deduct_credits, the call returns an error and never
\* reports success: a failing persist step ends the call with an
\* Encryption or Storage error, and success is only ever reported by a
\* rename that worked.
\* ------------------------------------------------------------------------
PersistFails(t) ==
    \/ /\ pc[t] = "persist_rlock"
       /\ ~derive_key(key[op[t].store], env).ok \/ "cipher" \in env.down
    \/ /\ pc[t] = "persist_write"
       /\ "disk" \in env.down
    \/ /\ pc[t] = "persist_rename"
       /\ "disk" \in env.down \/ ~tmp.exists

C11_PersistFailureSurfaces ==
    [][\A t \in AllTasks :
          /\ (PersistFails(t) /\ pc'[t] \notin {pc[t], "aborted"})
             => (pc'[t] = "done" /\ res'[t].tag \in {"Encryption", "Storage"})
          /\ (pc'[t] = "done" /\ pc[t] # "done" /\ res'[t].tag = "Ok")
             => (pc[t] = "persist_rename" /\ ~PersistFails(t))]_vars

\* One call failed on key derivation, one on the file system, and after
\* the repair one succeeded.
C11_Witness ==
    \E t, u, v \in AllTasks :
        /\ Returned(t) /\ res[t].tag = "Encryption" /\ key[op[t].store] = "none"
        /\ Returned(u) /\ res[u].tag = "Storage"
        /\ ReturnedOk(v)

\* ------------------------------------------------------------------------
\* C12: get_balance, has_credits, is_tx_processed, get_deposits and
\* get_usage never change the aggregate or the stored file; get_balance
\* for an unseen identity returns a zero balance and creates no entry.
\* ------------------------------------------------------------------------
ReadStep(t) == op'[t].kind \in ReadKinds /\ pc[t] = "idle" /\ pc'[t] = "done"

C12_ReadsChangeNothing ==
    [][\A t \in AllTasks :
          ReadStep(t) =>
            /\ data' = data /\ file' = file /\ tmp' = tmp
            /\ (/\ op'[t].kind = "get_balance"
                /\ op'[t].user_id \notin DOMAIN data["server"].balances)
               => /\ res'[t].value = CreditBalance_new(op'[t].user_id)
                  /\ op'[t].user_id \notin DOMAIN data'["server"].balances]_vars

\* get_balance was answered for an identity the ledger, which knows
\* another identity, has no entry for.
C12_Witness ==
    \E t \in AllTasks :
        /\ Returned(t) /\ op[t].kind = "get_balance"
        /\ op[t].user_id \notin DOMAIN data["server"].balances
        /\ data["server"].balances # EmptyMap
        /\ res[t].value = CreditBalance_new(op[t].user_id)

\* ------------------------------------------------------------------------
\* C13: starting from an empty ledger, a verified deposit of amount a for
\* an identity results in credits_remaining = a and exactly one deposit
\* record for it, with status Confirmed; a following deduct_credits of
\* c <= a results in credits_remaining = a - c and exactly one usage
\* record for it.
\* ------------------------------------------------------------------------
\* The first call was a POST /v1/deposit whose payment verifies.
VerifiedFirst ==
    /\ Returned(1) /\ op[1].kind = "http"
    /\ chain_enabled(op[1].request.chain)
    /\ verify_usdc_transfer(op[1].request.tx_hash, {op[1].request.amount}, env.block).verified

\* The second call was a deduct_credits for the same identity, within a.
DeductSecond ==
    /\ VerifiedFirst
    /\ Returned(2) /\ op[2].kind = "deduct"
    /\ op[2].user_id = op[1].request.user_id
    /\ op[2].credits <= op[1].request.amount

C13_EndToEnd ==
    LET u == op[1].request.user_id
        a == op[1].request.amount
        d == data["server"]
    IN /\ (VerifiedFirst /\ pc[2] = "idle")
          => /\ ReturnedOk(1)
             /\ get_balance(d, u).credits_remaining = a
             /\ Len(get_deposits(d, u)) = 1
             /\ get_deposits(d, u)[1].status = "Confirmed"
             /\ get_deposits(d, u)[1].amount_usdc = a
       /\ (DeductSecond /\ pc[3] = "idle")
          => /\ ReturnedOk(2)
             /\ get_balance(d, u).credits_remaining = a - op[2].credits
             /\ Len(get_usage(d, u)) = 1
             /\ get_usage(d, u)[1] = op[2].usage
             /\ Len(get_deposits(d, u)) = 1

\* A deposit of 2 followed by a deduction of 1.
C13_Witness ==
    /\ DeductSecond /\ pc[3] = "idle"
    /\ op[1].request.amount = 2 /\ op[2].credits = 1
    /\ get_balance(data["server"], op[2].user_id).credits_remaining = 1

\* ------------------------------------------------------------------------
\* C14 (as claimed): POST /v1/deposit answers 409 whenever the transaction
\* id is already processed and 400 whenever the chain is disabled or the
\* on-chain verification fails, and the ledger is then unchanged.
\* ------------------------------------------------------------------------
\* The step of request t that finds the transaction id already processed.
SeesProcessed(t) ==
    /\ op[t].kind = "http"
    /\ pc[t] \in {"http_check", "add_cs"} /\ pc'[t] # pc[t]
    /\ is_tx_processed(data[op[t].store], op[t].request.tx_hash)

SeesDisabled(t) ==
    /\ pc[t] = "http_check" /\ pc'[t] # pc[t]
    /\ ~chain_enabled(op[t].request.chain)

SeesUnverified(t) ==
    /\ pc[t] = "http_verify" /\ pc'[t] # pc[t]
    /\ ~verify_usdc_transfer(op[t].request.tx_hash, {op[t].request.amount}, env.block).verified

Answers(t, code) ==
    /\ pc'[t] = "done" /\ StatusOf(res'[t].tag) = code
    /\ data' = data /\ file' = file

C14_RejectionCodes ==
    [][\A t \in AllTasks :
          /\ SeesProcessed(t) => Answers(t, 409)
          /\ SeesDisabled(t) => Answers(t, 400)
          /\ SeesUnverified(t) => Answers(t, 400)]_vars

\* C14 (amended): the chain check comes first: 400 whenever the chain is
\* disabled; on an enabled chain 409 whenever the transaction id is already
\* processed, and 400 whenever the verification fails; the ledger is
\* unchanged in each case.
C14_RejectionCodesInOrder ==
    [][\A t \in AllTasks :
          /\ (SeesProcessed(t) /\ chain_enabled(op[t].request.chain))
             => Answers(t, 409)
          /\ SeesDisabled(t) => Answers(t, 400)
          /\ SeesUnverified(t) => Answers(t, 400)]_vars

\* A replay on the enabled chain that got past the pre-check was answered
\* 409 by add_credits itself, and the ledger holds the one deposit.
C14_Witness ==
    \E t, u \in AllTasks :
        /\ ReturnedOk(u) /\ op[u].kind = "http"
        /\ Returned(t) /\ op[t].kind = "http" /\ res[t].tag = "DuplicateTransaction"
        /\ StatusOf(res[t].tag) = 409
        /\ data["server"].deposits = <<op[u].deposit>>

\* ------------------------------------------------------------------------
\* C15: the credits POST /v1/deposit grants equal the amount the
\* facilitator found on-chain, never the amount claimed in the request;
\* a request whose claimed amount differs from the on-chain amount is
\* rejected and nothing is credited.
\* ------------------------------------------------------------------------
\* The amount the facilitator finds for the transaction, whatever is claimed.
FoundOnChain(tx_hash) == verify_usdc_transfer(tx_hash, {}, env.block).amount_usdc

C15_CreditsAreOnChainAmount ==
    [][\A t \in AllTasks :
          /\ (AddStep(t) /\ op[t].kind = "http" /\ res'[t].tag = "Ok")
             => LET s == op[t].store
                    u == op[t].request.user_id
                    found == FoundOnChain(op[t].request.tx_hash)
                IN /\ data'[s].deposits[Len(data'[s].deposits)].credits_granted = found
                   /\ data'[s].deposits[Len(data'[s].deposits)].amount_usdc = found
                   /\ get_balance(data'[s], u).credits_remaining =
                         saturating_add(get_balance(data[s], u).credits_remaining, found)
                   /\ res'[t].balance = get_balance(data'[s], u)
          /\ (/\ pc[t] = "http_verify" /\ pc'[t] # pc[t]
              /\ op[t].request.amount # FoundOnChain(op[t].request.tx_hash))
             => Answers(t, 400)
          /\ (op[t].kind = "http" /\ pc'[t] = "add_wlock")
             => op'[t].request.amount = FoundOnChain(op[t].request.tx_hash)]_vars

\* One request claimed 1 for a transaction that moved 2 and was refused;
\* another claimed 2 for it and was credited 2.
C15_Witness ==
    \E t, u \in AllTasks :
        /\ Returned(t) /\ op[t].kind = "http" /\ res[t].tag = "VERIFICATION_FAILED"
        /\ op[t].request.amount = 1 /\ FoundOnChain(op[t].request.tx_hash) = 2
        /\ ReturnedOk(u) /\ op[u].kind = "http"
        /\ op[u].request.tx_hash = op[t].request.tx_hash
        /\ get_balance(data["server"], op[u].request.user_id).credits_remaining = 2

\* ------------------------------------------------------------------------
\* C16 (as claimed): on every chain verify_payment returns verified = true
\* only if the transaction exists, succeeded and moved the token to the
\* deposit address, and the amount_usdc it reports is the total amount of
\* the token the transaction moved to the deposit address.
\* ------------------------------------------------------------------------
Verifications == {t \in AllTasks : pc[t] = "done" /\ op[t].kind = "verify"}

C16_VerifiedAmountIsTotalMoved ==
    \A t \in Verifications :
        res[t].value.verified =>
            LET c == OnChain(op[t].payload.chain, op[t].payload.tx_hash)
            IN /\ c.exists /\ c.success /\ c.moved > 0
               /\ res[t].value.amount_usdc = c.moved

\* ------------------------------------------------------------------------
\* C17 (as claimed): when the payload names an expected sender,
\* verify_payment succeeds only if the sender of the transfer is
\* established to be that sender; when the transfer is there and its
\* sender is not, it fails with the sender-mismatch error.
\* ------------------------------------------------------------------------
\* The node handed the transaction to the facilitator.
Fetched(t) ==
    op[t].payload.chain = "Near" =>
        \A sender \in op[t].payload.from :
            get_tx_status_internal(op[t].payload.tx_hash, sender, op[t].routed)

C17_ExpectedSenderEstablished ==
    \A t \in Verifications :
        op[t].payload.from # {} =>
            LET c == OnChain(op[t].payload.chain, op[t].payload.tx_hash)
            IN /\ res[t].value.verified => c.senders = op[t].payload.from
               /\ (/\ Fetched(t) /\ c.exists /\ c.success /\ c.moved > 0
                   /\ c.senders # op[t].payload.from)
                  => res[t].value.tag = "SenderMismatch"

\* ------------------------------------------------------------------------
\* The sweeper's current cycle, per chain
\* ------------------------------------------------------------------------
IndexOf(chain) == CHOOSE k \in DOMAIN SweepChains : SweepChains[k] = chain
\* sweep_once has been through the chain in the current (or last) cycle.
Examined(chain) == sw.pc \in {"sweeping", "idle"} /\ IndexOf(chain) < sw.i
OnChainCall(chain, call, e) == e.chain = chain /\ e.call = call
BalanceQueries(chain) ==
    SelectSeq(sw.calls, LAMBDA e : OnChainCall(chain, "get_deposit_wallet_balance", e))
Transfers(chain) ==
    SelectSeq(sw.calls, LAMBDA e : OnChainCall(chain, "transfer_to", e))
RecordsOf(chain) == SelectSeq(sw.records, LAMBDA r : r.chain = chain)
\* Examined chains with an operator address whose balance was read.
Polled ==
    {chain \in AllChains :
        /\ Examined(chain)
        /\ sw.operator_addresses[chain] # {}
        /\ Len(BalanceQueries(chain)) = 1
        /\ BalanceQueries(chain)[1].answer.ok}
BalanceOf(chain) == BalanceQueries(chain)[1].answer.value

C19_NoOperatorNoSweep ==
    \A chain \in AllChains :
        (sw.pc # "none" /\ sw.operator_addresses[chain] = {})
        => /\ BalanceQueries(chain) = <<>>
           /\ Transfers(chain) = <<>>
           /\ RecordsOf(chain) = <<>>
           /\ \A k \in DOMAIN sw.sweep_history : sw.sweep_history[k].chain # chain

\* A cycle ended in which NEAR, without operator address, was passed over
\* while Solana was swept.
C19_Witness ==
    /\ sw.pc = "idle" /\ sw.cycles > 0
    /\ sw.operator_addresses["Near"] = {}
    /\ Examined("Near")
    /\ Len(RecordsOf("Solana")) = 1

\* ------------------------------------------------------------------------
\* C20: within one sweep cycle an error from one chain's balance query or
\* transfer never keeps the remaining chains from being examined and
\* swept, and never aborts the cycle: when the cycle ends every chain with
\* an operator address has had its balance read, and every transfer that
\* returned a result is in the records returned and in the history.
\* ------------------------------------------------------------------------
C20_ErrorsDoNotStopTheCycle ==
    (sw.pc = "idle" /\ sw.cycles > 0)
    => /\ sw.i = Len(SweepChains) + 1
       /\ \A chain \in AllChains :
            sw.operator_addresses[chain] # {}
            => /\ Len(BalanceQueries(chain)) = 1
               /\ \A k \in DOMAIN Transfers(chain) :
                    Transfers(chain)[k].answer.ok
                    => /\ Len(RecordsOf(chain)) = 1
                       /\ \E h \in DOMAIN sw.sweep_history :
                            sw.sweep_history[h] = RecordsOf(chain)[1]

\* Base's transfer_to answered with its unsupported-operation error, the
\* NEAR balance query failed, and Solana was swept all the same.
C20_Witness ==
    /\ sw.pc = "idle" /\ sw.cycles > 0
    /\ Len(Transfers("Base")) = 1 /\ ~Transfers("Base")[1].answer.ok
    /\ Len(BalanceQueries("Near")) = 1 /\ ~BalanceQueries("Near")[1].answer.ok
    /\ Len(RecordsOf("Solana")) = 1

\* ------------------------------------------------------------------------
\* The sweep history
\* ------------------------------------------------------------------------
CycleEnded == sw.pc = "idle" /\ sw.cycles > 0
\* The transfer_to calls of the current (or last) cycle.
Attempts == SelectSeq(sw.calls, LAMBDA e : e.call = "transfer_to")
\* r is a record of the sweep that call c attempted.
RecordFor(c, r) == r.chain = c.chain /\ r.to = c.destination /\ r.amount = c.amount
InHistory(r) == \E h \in DOMAIN sw.sweep_history : sw.sweep_history[h] = r
\* The step in which sweep_once stores its records and returns.
EndStep == sw.pc = "sweeping" /\ sw'.pc = "idle"

C22_HistoryKeepsLatest ==
    [][LET all == sw.sweep_history \o sw.records
           kept == sw'.sweep_history
       IN /\ Len(kept) <= SWEEP_HISTORY_MAX
          /\ \A k \in 1..(Len(kept) - 1) : kept[k].timestamp < kept[k + 1].timestamp
          /\ EndStep =>
               /\ Len(kept) = (IF Len(all) > SWEEP_HISTORY_MAX
                               THEN SWEEP_HISTORY_MAX ELSE Len(all))
               /\ \A k \in DOMAIN kept : kept[k] = all[Len(all) - Len(kept) + k]]_vars

\* The history is full, its oldest records are gone and its last record
\* is one the cycle just ended produced.
C22_Witness ==
    /\ CycleEnded
    /\ Len(sw.sweep_history) = SWEEP_HISTORY_MAX
    /\ sw.records # <<>>
    /\ sw.sweep_history[SWEEP_HISTORY_MAX] = sw.records[Len(sw.records)]
    /\ sw.sweep_history[1].timestamp > SweptBefore(2).timestamp

\* ------------------------------------------------------------------------
\* Pricing calls that returned
\* ------------------------------------------------------------------------
Priced(kind) == {t \in AllTasks : pc[t] = "done" /\ op[t].kind = kind}
\* a * b / 1_000_000 on the integers.
Scaled(a, b) == (a * b) \div MILLION

\* ------------------------------------------------------------------------
\* C23 (as claimed): calculate_credits(usage, config) =
\* max(prompt_tokens * prompt_credits_per_million / 1,000,000 +
\* completion_tokens * completion_credits_per_million / 1,000,000,
\* minimum_credits_per_message) for all token counts and rates, without
\* wrap-around; the result is never below the configured minimum.
\* ------------------------------------------------------------------------
C23_CalculateCreditsFormula ==
    \A t \in Priced("calculate_credits") :
        /\ res[t].tag = "Value"
        /\ res[t].value =
              Max(Scaled(op[t].tokens.prompt_tokens,
                         op[t].pricing.prompt_credits_per_million)
                  + Scaled(op[t].tokens.completion_tokens,
                           op[t].pricing.completion_credits_per_million),
                  op[t].pricing.minimum_credits_per_message)
        /\ res[t].value >= op[t].pricing.minimum_credits_per_message

\* ------------------------------------------------------------------------
\* C24 (as claimed): estimate_credits(n, config) equals calculate_credits
\* applied to prompt_tokens = n / 4 (integer division) and
\* completion_tokens = 2 * (n / 4), for every character count n.
\* ------------------------------------------------------------------------
C24_EstimateIsCalculateOfQuarter ==
    \A t \in Priced("estimate_credits") :
        LET n == op[t].message_chars
        IN /\ res[t].tag = "Value"
           /\ res[t].value =
                 calculate_credits(
                     TokenUsage_new(n \div CHARS_PER_TOKEN, 2 * (n \div CHARS_PER_TOKEN)),
                     op[t].pricing).value

\* ------------------------------------------------------------------------
\* C25 (as claimed): usdc_to_credits(a) = a * usdc_to_credits_ratio /
\* 1,000,000 for every configured ratio and amount a.
\* ------------------------------------------------------------------------
C25_RatioDeterminesConversion ==
    \A t \in Priced("usdc_to_credits") :
        res[t].value = Scaled(op[t].usdc_micro, op[t].pricing.usdc_to_credits_ratio)

\* ------------------------------------------------------------------------
\* The deposit list
\* ------------------------------------------------------------------------
DepositTxs(d) == {d.deposits[i].tx_hash : i \in DOMAIN d.deposits}

C27_ProcessedIdsAreDepositIds ==
    \A s \in cfg.stores :
        /\ \A i, j \in DOMAIN data[s].deposits :
              data[s].deposits[i].tx_hash = data[s].deposits[j].tx_hash => i = j
        /\ data[s].processed_tx_hashes = DepositTxs(data[s])

\* Two deposits were credited and the ledger was loaded again from the
\* file with both of them.
C27_Witness ==
    /\ boot["server"] = "Loaded"
    /\ Len(data["server"].deposits) = 2
    /\ Cardinality(data["server"].processed_tx_hashes) = 2

\* ------------------------------------------------------------------------
\* C28 (as claimed): if add_credits returns any error (replay, encryption
\* or storage failure), the in-memory aggregate is as before the call: the
\* transaction id is not recorded and no balance is credited.  A call
\* that fails in persist found the id unrecorded (or it would have been
\* refused as a replay), so the id is still unrecorded when it returns.
\* ------------------------------------------------------------------------
C28_FailedAddLeavesNoTrace ==
    \A t \in AllTasks :
        (/\ IsLatest(t) /\ Returned(t) /\ op[t].kind = "add"
         /\ res[t].tag \in {"Encryption", "Storage"})
        => ~is_tx_processed(data[op[t].store], op[t].deposit.tx_hash)

\* ------------------------------------------------------------------------
\* C29 (as claimed): if deduct_credits returns any error, the aggregate is
\* as before the call: no usage record is appended and no balance changes,
\* including for a zero-amount deduction for an identity that has no
\* balance entry.
\* ------------------------------------------------------------------------
C29_FailedDeductChangesNothing ==
    [][\A t \in AllTasks :
          (DeductStep(t) /\ res'[t].tag # "Ok") => data' = data]_vars

\* ------------------------------------------------------------------------
\* C30 (as claimed): when several mutating operations persist concurrently
\* on one store, with no injected I/O fault, every persist succeeds and the
\* file at the storage path is at all times either absent or a complete
\* encryption; after all operations finish it decrypts to the final
\* in-memory aggregate.
\* ------------------------------------------------------------------------
C30_ConcurrentPersistsLand ==
    /\ \A t \in AllTasks : Returned(t) => res[t].tag \notin {"Encryption", "Storage"}
    /\ file.exists => (file.len = EncryptedLen /\ ~file.flipped)
    /\ (/\ \A t \in cfg.tasks : Returned(t)
        /\ data["server"] # CreditStoreData_default)
       => /\ file.exists
          /\ decrypt_ok(key["server"], file)
          /\ from_slice(file.pt) = data["server"]

\* ------------------------------------------------------------------------
\* C31 (as claimed): with payments enabled, a chat response is delivered
\* to a user only if that user's balance was debited by calculate_credits
\* of the tokens actually used: no request whose debit failed (balance
\* below the actual cost after the pre-flight estimate passed, or
\* concurrent requests of one user) returns a response.
\* ------------------------------------------------------------------------
Responded(t) ==
    /\ Returned(t) /\ op[t].kind = "chat"
    /\ res[t].tag \notin {"Insufficient credits", "Panic"}

C31_NoUnbilledResponse ==
    \A t \in AllTasks : Responded(t) => res[t].tag = "Ok"

\* ------------------------------------------------------------------------
\* C32 (as claimed): on every enabled chain (EVM, NEAR, Solana), a
\* POST /v1/deposit request naming a genuine, successful transfer of the
\* token to the deposit address with the correct amount is verified (and
\* then credited): the verification the handler asks for, with the
\* payload it builds (the claimed amount, no sender), succeeds.
\* ------------------------------------------------------------------------
C32_GenuineDepositVerified ==
    \A t \in Verifications :
        LET payload == op[t].payload
            c == OnChain(payload.chain, payload.tx_hash)
        IN (/\ payload.from = {}
            /\ c.exists /\ c.success /\ c.moved > 0
            /\ payload.amount = {c.moved})
           => res[t].value.verified

\* ------------------------------------------------------------------------
\* C33 (as claimed): across restarts of one deployment, the store derives
\* the same ledger encryption key whether or not the DeriveKey call is
\* reachable on a given start, so a file written in one run can always be
\* loaded in the next: no start fails to decrypt the file, and the key an
\* instance holds decrypts the file that is there.
\* ------------------------------------------------------------------------
C33_SameKeyOnEveryStart ==
    /\ boot["server"] # "Encryption"
    /\ (file.exists /\ key["server"] # "none") => decrypt_ok(key["server"], file)

\* ------------------------------------------------------------------------
\* C34 (as claimed): in every reachable state and for every identity,
\* total_deposited equals the sum of credits_granted over that identity's
\* deposit records and total_consumed equals the sum of credits_consumed
\* over that identity's usage records.
\* ------------------------------------------------------------------------
C34_TotalsAreSumsOfRecords ==
    \A s \in cfg.stores, u \in Users :
        LET deposits == get_deposits(data[s], u)
            usage == get_usage(data[s], u)
        IN /\ get_balance(data[s], u).total_deposited =
                 SumSeq([k \in DOMAIN deposits |-> deposits[k].credits_granted], 1)
           /\ get_balance(data[s], u).total_consumed =
                 SumSeq([k \in DOMAIN usage |-> usage[k].credits_consumed], 1)

\* ------------------------------------------------------------------------
\* C35: NEAR verification does not depend on the memo: for two
\* transactions that differ only in the ft_transfer memo (equal to the
\* depositor identity, different from it, or absent), verify_payment
\* with the same payload otherwise returns the same result.
\* ------------------------------------------------------------------------
C35_MemoDoesNotMatter ==
    \A t, u \in Verifications :
        LET p == op[t].payload
            q == op[u].payload
        IN (/\ p.chain = "Near" /\ q.chain = "Near"
            /\ [p EXCEPT !.tx_hash = ""] = [q EXCEPT !.tx_hash = ""]
            /\ op[t].routed = op[u].routed
            /\ p.tx_hash \in DOMAIN NearTxs /\ q.tx_hash \in DOMAIN NearTxs
            /\ LET a == NearTxs[p.tx_hash]
                   b == NearTxs[q.tx_hash]
               IN /\ [a EXCEPT !.actions = <<>>] = [b EXCEPT !.actions = <<>>]
                  /\ Len(a.actions) = Len(b.actions)
                  /\ \A k \in DOMAIN a.actions :
                        [a.actions[k] EXCEPT !.memo = {}] = [b.actions[k] EXCEPT !.memo = {}])
           => res[t].value = res[u].value

\* A deposit of u1 was verified on a transfer whose memo names u1 and on
\* one whose memo names someone else, with the same result.
C35_Witness ==
    /\ Returned(1) /\ Returned(2)
    /\ op[1].kind = "verify" /\ op[2].kind = "verify"
    /\ op[1].payload = PaymentPayload("Near", "n5", "u1", {"a1"}, {1})
    /\ op[2].payload = PaymentPayload("Near", "n6", "u1", {"a1"}, {1})
    /\ res[1].value = Verified(1, {"a1"})
    /\ res[2].value = res[1].value

\* ------------------------------------------------------------------------
\* C36 (as claimed): Solana verification reports as amount the positive
\* increase of the deposit wallet's balance of the configured mint between
\* the pre- and post-transaction snapshots, and reports as sender the
\* owner of the account whose balance of that mint decreased by that same
\* amount.
\* ------------------------------------------------------------------------
C36_SolanaAmountAndSender ==
    \A t \in Verifications :
        (op[t].payload.chain = "Solana" /\ res[t].value.verified) =>
            LET tx == SolanaTxs[op[t].payload.tx_hash]
                v == res[t].value
                Payers == {m \in DOMAIN tx.pre :
                              /\ tx.pre[m].usdc
                              /\ tx.pre[m].amount =
                                    AmountAt(tx.post, tx.pre[m].account_index) + v.amount_usdc}
            IN /\ v.amount_usdc > 0
               /\ \E k \in DOMAIN tx.post :
                     /\ tx.post[k].usdc /\ tx.post[k].owner = {"wallet"}
                     /\ tx.post[k].amount =
                           AmountAt(tx.pre, tx.post[k].account_index) + v.amount_usdc
               /\ Payers # {} => \E m \in Payers : v.from = tx.pre[m].owner

\* ------------------------------------------------------------------------
\* C37: under fairness, the sweeper task runs sweep cycles without end
\* (here: every cycle up to the bound MaxCycles starts and finishes); each
\* cycle examines the chains one after another, the next cycle starts one
\* interval after the previous cycle has finished, and cycles never
\* overlap (a cycle starts only when none is in progress and ends only
\* when every chain has been examined).
\* ------------------------------------------------------------------------
C37_SweepsForever ==
    /\ \A k \in 0..(MaxCycles - 1) :
          (sw.pc = "idle" /\ sw.cycles = k) ~> (sw.pc = "sweeping" /\ sw.cycles = k)
    /\ \A k \in 0..(MaxCycles - 1) :
          (sw.pc = "sweeping" /\ sw.cycles = k) ~> (sw.pc = "idle" /\ sw.cycles = k + 1)
    /\ [][/\ (sw'.pc = "sweeping" /\ sw.pc # "sweeping")
             => /\ sw.pc = "idle"
                /\ sw'.now = sw.now + sw.config.interval
                /\ sw'.i = 1 /\ sw'.calls = <<>>
          /\ (sw.pc = "sweeping" /\ sw'.pc = "sweeping")
             => /\ sw'.i = sw.i + 1
                /\ sw'.now > sw.now
                /\ \A c \in (DOMAIN sw'.calls) \ (DOMAIN sw.calls) :
                      sw'.calls[c].chain = SweepChains[sw.i]
          /\ EndStep
             => /\ sw.i = Len(SweepChains) + 1
                /\ sw'.now = sw.now
                /\ sw'.cycles = sw.cycles + 1
          /\ sw.pc = "idle" => sw'.pc \in {"idle", "sweeping"}]_vars

\* Two cycles have run: each took the interval and one tick per chain.
C37_Witness ==
    /\ sw.pc = "idle" /\ sw.cycles = 2
    /\ sw.now = 1 + 2 * (sw.config.interval + Len(SweepChains))
    /\ sw.config.interval > 0

\* ------------------------------------------------------------------------
\* C38: POST /v1/deposit credits a deposit as soon as verification
\* succeeds, whatever confirmation count the facilitator reports
\* (including 0): the request whose verification succeeds goes on to
\* add_credits with a confirmed deposit of the verified amount, and
\* add_credits grants it unless the transaction id is already processed.
\* ------------------------------------------------------------------------
C38_NoConfirmationThreshold ==
    [][\A t \in AllTasks :
          LET rq == op[t].request
              v == verify_usdc_transfer(rq.tx_hash, {rq.amount}, env.block)
          IN /\ (pc[t] = "http_verify" /\ pc'[t] # pc[t] /\ v.verified)
                => /\ pc'[t] = "add_wlock"
                   /\ op'[t].deposit.status = "Confirmed"
                   /\ op'[t].deposit.credits_granted = v.amount_usdc
             /\ (/\ AddStep(t) /\ op[t].kind = "http"
                 /\ ~is_tx_processed(data[op[t].store], rq.tx_hash))
                => /\ res'[t].tag = "Ok"
                   /\ get_balance(data'[op[t].store], rq.user_id).credits_remaining =
                         saturating_add(get_balance(data[op[t].store], rq.user_id).credits_remaining,
                                        op[t].deposit.credits_granted)]_vars

\* A deposit was credited while the chain still stood at the block of the
\* transfer: its verification reported 0 confirmations.
C38_Witness ==
    /\ ReturnedOk(1) /\ op[1].kind = "http"
    /\ verify_usdc_transfer(op[1].request.tx_hash, {}, env.block).confirmations = 0
    /\ get_balance(data["server"], "u1").credits_remaining > 0
====
